---- MODULE Spec2Model ----
(***************************************************************************)
(* H264DecoderImpl (modules/video_coding/codecs/h264/h264_decoder_impl.cc) *)
(* as a state machine: one action per public call (Configure, Decode,      *)
(* Release, RegisterDecodeCompleteCallback, the destructor).  The FFmpeg   *)
(* engine and the D3D11 device layer are external: every result they       *)
(* return is an input of the action, drawn with \E.                        *)
(* Two more objects of the process are modelled with a variable each:      *)
(* DxgiAdapterDuplicator (modules/desktop_capture/win) and FFEncoder       *)
(* (modules/video_coding/codecs/h264/FFEncoder.cc).                        *)
(*                                                                         *)
(* COM handles are numbered; the handle table counts the Release() calls   *)
(* made on each of them.  A call made through a handle that was already    *)
(* released, or through a null device, is undefined behaviour: the table   *)
(* records it in `misuse' and the value such a call returns is left        *)
(* nondeterministic.                                                       *)
(***************************************************************************)
EXTENDS Integers, Sequences, FiniteSets, TLC

VARIABLES dec, eng, gpu, engs, tel, sw, delivered, accepted, last, calls,
          alive, aborted, adapter, encoder

\* The decoder and what surrounds it.
decoderVars == <<dec, eng, gpu, engs, tel, sw, delivered, accepted, last,
                 calls, alive, aborted>>

vars == <<decoderVars, adapter, encoder>>

\* ---------------------------------------------------------------- bounds
\* Number of Configure/Decode/Release calls explored on one session.
MaxCalls == 3
\* Number of Decode calls explored on the software branch.
MaxPictures == 2
\* Number of engine contexts a software session goes through.
MaxSessions == 2
\* Number of outputs an adapter enumerates.
MaxOutputs == 3

\* ------------------------------------------------------------- constants
Null == 0
IntMax == 2147483647

WEBRTC_VIDEO_CODEC_OK == "WEBRTC_VIDEO_CODEC_OK"
WEBRTC_VIDEO_CODEC_ERROR == "WEBRTC_VIDEO_CODEC_ERROR"
WEBRTC_VIDEO_CODEC_ERR_PARAMETER == "WEBRTC_VIDEO_CODEC_ERR_PARAMETER"
WEBRTC_VIDEO_CODEC_UNINITIALIZED == "WEBRTC_VIDEO_CODEC_UNINITIALIZED"

kVideoCodecH264 == "kVideoCodecH264"
kVideoCodecVP8 == "kVideoCodecVP8"
CodecTypes == {kVideoCodecH264, kVideoCodecVP8}

AV_PIX_FMT_NONE == "AV_PIX_FMT_NONE"
AV_PIX_FMT_D3D11 == "AV_PIX_FMT_D3D11"
AV_PIX_FMT_YUV420P == "AV_PIX_FMT_YUV420P"
AV_PIX_FMT_YUV422P == "AV_PIX_FMT_YUV422P"
AV_PIX_FMT_YUV444P == "AV_PIX_FMT_YUV444P"
AV_PIX_FMT_YUVJ420P == "AV_PIX_FMT_YUVJ420P"
AV_PIX_FMT_YUVJ422P == "AV_PIX_FMT_YUVJ422P"
AV_PIX_FMT_YUVJ444P == "AV_PIX_FMT_YUVJ444P"
AV_PIX_FMT_YUV420P10LE == "AV_PIX_FMT_YUV420P10LE"
AV_PIX_FMT_YUV422P10LE == "AV_PIX_FMT_YUV422P10LE"
AV_PIX_FMT_YUV444P10LE == "AV_PIX_FMT_YUV444P10LE"
AV_PIX_FMT_NV12 == "AV_PIX_FMT_NV12"

kPixelFormatsSupported ==
  { AV_PIX_FMT_YUV420P, AV_PIX_FMT_YUV422P, AV_PIX_FMT_YUV444P,
    AV_PIX_FMT_YUVJ420P, AV_PIX_FMT_YUVJ422P, AV_PIX_FMT_YUVJ444P,
    AV_PIX_FMT_YUV420P10LE, AV_PIX_FMT_YUV422P10LE, AV_PIX_FMT_YUV444P10LE,
    AV_PIX_FMT_NV12, AV_PIX_FMT_D3D11 }

kYPlaneIndex == 1
kUPlaneIndex == 2
kVPlaneIndex == 3

\* Candidate lists the engine may hand to get_format (AV_PIX_FMT_NONE
\* terminator left implicit).
FormatLists == { <<AV_PIX_FMT_D3D11>>,
                 <<AV_PIX_FMT_YUV420P, AV_PIX_FMT_D3D11>>,
                 <<AV_PIX_FMT_YUV420P>> }

\* Resolution hints of Settings::max_render_resolution(); <<0,0>> is the
\* default-constructed, invalid RenderResolution.
Hints == { <<0, 0>>, <<2, 2>> }
\* Dimensions of the pictures the engine returns.
PicDims == { <<2, 2>>, <<4, 4>> }
\* A size_t is written <<q, r>> for q * 2^31 + r with r in 0..IntMax, TLC
\* integers being 32 bits wide.  Sizes of EncodedImage: empty, ordinary,
\* the largest an int carries, and one more than that.
PacketSizes == { <<0, 0>>, <<0, 1>>, <<0, IntMax>>, <<1, 0>> }
\* Consumers that can be registered (Null: none).
Callbacks == { Null, 1 }

\* ------------------------------------------------------- the decoder object
\* AVHWDeviceContext reference; `live' is FALSE for a null AVBufferRef*.
NullCtx == [live |-> FALSE, device |-> Null, device_context |-> Null]

\* What the engine decides about one software picture: the columns and
\* rows avcodec_align_dimensions adds, the columns and rows of the
\* allocation's request the picture does not use, the samples and rows by
\* which cropping moved the plane pointers, whether the engine keeps a
\* reference to the picture after it is output, and the answer of
\* av_image_check_size.
NoSwPicture == [pad |-> 0, shrink |-> 0, left |-> 0, top |-> 0,
                keeps |-> FALSE, size_ok |-> TRUE]

\* AVCodecContext fields the decoder reads or writes; NoEngine stands for
\* the fields of a context that does not exist.
NoEngine == [pix_fmt |-> AV_PIX_FMT_NONE, hwaccel |-> FALSE,
             get_buffer2 |-> FALSE, negotiated |-> FALSE,
             reordered_opaque |-> 0, prev_opaque |-> 0, failed |-> 0,
             stream |-> NoSwPicture]

\* Default member initialisers of the class (its header is not part of the
\* sources at hand): null pointers and a 0x0 tracked surface size.
HeaderDefaults ==
  [d3dDevice_ |-> Null, d3dDeviceContext_ |-> Null, d3dTexture_ |-> Null,
   texture_width |-> 0, texture_height |-> 0,
   m_HwDeviceContext |-> NullCtx, m_HwFramesContext |-> FALSE,
   av_context_ |-> Null, av_frame_ |-> FALSE]

\* H264DecoderImpl::H264DecoderImpl()
Constructed ==
  [f \in DOMAIN HeaderDefaults \cup
         {"decoded_image_callback_", "has_reported_init_", "has_reported_error_"}
     |-> CASE f = "decoded_image_callback_" -> Null
           [] f = "has_reported_init_" -> FALSE
           [] f = "has_reported_error_" -> FALSE
           [] OTHER -> HeaderDefaults[f]]

\* The part of the state the handlers thread through their helper calls:
\* the object, the engine context it owns, the handle table, the engine
\* handles, the telemetry counts and the resource events of this call.
World == [dec |-> dec, eng |-> eng, gpu |-> gpu, engs |-> engs, tel |-> tel,
          sw |-> sw, ev |-> <<>>]

\* ------------------------------------------------------------ COM handles
\* ID3D11Device / ID3D11DeviceContext / ID3D11Texture2D objects.
NewHandle(s, kind, w, h) ==
  [s EXCEPT !.gpu.table = Append(@, [kind |-> kind, releases |-> 0,
                                     w |-> w, h |-> h]),
            !.ev = Append(@, <<"create", Len(s.gpu.table) + 1>>)]

LastHandle(s) == Len(s.gpu.table)

Released(s, h) == s.gpu.table[h].releases > 0

\* IUnknown::Release() through pointer h.
ComRelease(s, h) ==
  [s EXCEPT !.gpu.table[h].releases = @ + 1,
            !.gpu.misuse = IF Released(s, h) THEN @ \cup {"release_of_released"}
                           ELSE @,
            !.ev = Append(@, <<"release", h>>)]

\* ------------------------------------------------------------- telemetry
ReportInit(s) ==
  IF s.dec.has_reported_init_ THEN s
  ELSE [s EXCEPT !.tel.init = @ + 1, !.dec.has_reported_init_ = TRUE]

ReportError(s) ==
  IF s.dec.has_reported_error_ THEN s
  ELSE [s EXCEPT !.tel.error = @ + 1, !.dec.has_reported_error_ = TRUE]

IsInitialized_Always(s) == TRUE

IsInitialized(s) == s.dec.av_context_ # Null

\* ------------------------------------------ references to pooled buffers
\* scoped_refptr copy and destruction.
AddRef(s, buffer) == [s EXCEPT !.sw.pool[buffer].refs = @ + 1]
ReleaseRef(s, buffer) == [s EXCEPT !.sw.pool[buffer].refs = @ - 1]

\* A free callback that keeps the holder's reference.
AVFreeBuffer2_Leaks(s, a) == [s EXCEPT !.sw.avbufs = @ \ {a}]

\* void H264DecoderImpl::AVFreeBuffer2(opaque, data): delete video_frame.
AVFreeBuffer2(s, a) ==
  [ReleaseRef(s, a.buffer) EXCEPT !.sw.avbufs = @ \ {a}]

\* The AVBuffer loses the reference `who' ("frame" for av_frame_, "engine"
\* for the engine's own); the free callback runs when none is left.
AvBufferUnref(s, a, who) ==
  LET rest == IF who = "frame" THEN [a EXCEPT !.frame = FALSE]
              ELSE [a EXCEPT !.engine = FALSE]
  IN  IF ~rest.frame /\ ~rest.engine THEN AVFreeBuffer2(s, a)
      ELSE [s EXCEPT !.sw.avbufs = (@ \ {a}) \cup {rest}]

\* av_frame_unref(av_frame_.get())
RECURSIVE AvFrameUnref(_)
AvFrameUnref(s) ==
  LET refd == { a \in s.sw.avbufs : a.frame }
  IN  IF refd = {} THEN s
      ELSE AvFrameUnref(AvBufferUnref(s, CHOOSE a \in refd : TRUE, "frame"))

\* An engine that, when freed, takes every reference to its pictures with
\* it, the consumer's included.
FreeEnginePictures_All(s) ==
  [s EXCEPT !.sw.avbufs = {},
            !.sw.pool = [i \in DOMAIN @ |-> [@[i] EXCEPT !.refs = 0]]]

\* avcodec_free_context: the engine drops the pictures it had kept.
RECURSIVE FreeEnginePictures(_)
FreeEnginePictures(s) ==
  LET refd == { a \in s.sw.avbufs : a.engine }
  IN  IF refd = {} THEN s
      ELSE FreeEnginePictures(
             AvBufferUnref(s, CHOOSE a \in refd : TRUE, "engine"))

\* ----------------------------------------------------------------- Release
\* Destruction of the AVHWDeviceContext once its last reference is gone:
\* the engine owns the device and the device context it was handed and
\* releases both.
HwDeviceContextFree(s, ctx) ==
  LET s1 == IF ctx.device # Null THEN ComRelease(s, ctx.device) ELSE s
  IN  IF ctx.device_context # Null THEN ComRelease(s1, ctx.device_context)
      ELSE s1

\* av_context_.reset(): frees the engine handle and, with it, the engine's
\* references to pictures.
ResetAvContext_Keeps(s) == s

ResetAvContext(s) ==
  IF s.dec.av_context_ = Null THEN s
  ELSE [FreeEnginePictures(s)
          EXCEPT !.engs.live = @ \ {s.dec.av_context_},
                 !.dec.av_context_ = Null,
                 !.eng = NoEngine]

\* A Release that leaves the engine handle in place.
ReleaseOp_KeepsEngine(s) ==
  LET s1 == IF s.dec.d3dDevice_ # Null
            THEN ComRelease(s, s.dec.d3dDevice_) ELSE s
      s2 == IF s.dec.d3dDeviceContext_ # Null
            THEN ComRelease(s1, s.dec.d3dDeviceContext_) ELSE s1
      s3 == IF s.dec.d3dTexture_ # Null
            THEN ComRelease(s2, s.dec.d3dTexture_) ELSE s2
      ctx == s.dec.m_HwDeviceContext
      s4 == IF ctx.live THEN HwDeviceContextFree(s3, ctx) ELSE s3
  IN  [AvFrameUnref(s4) EXCEPT !.dec.m_HwFramesContext = FALSE,
                               !.dec.m_HwDeviceContext = NullCtx,
                               !.dec.av_frame_ = FALSE]

\* int32_t H264DecoderImpl::Release(); always returns WEBRTC_VIDEO_CODEC_OK.
\* The references to the hardware device context held by the frames
\* context and by the engine handle are dropped in this same call, so the
\* context is destroyed before Release returns.
ReleaseOp(s) ==
  LET s1 == IF s.dec.d3dDevice_ # Null
            THEN ComRelease(s, s.dec.d3dDevice_) ELSE s
      s2 == IF s.dec.d3dDeviceContext_ # Null
            THEN ComRelease(s1, s.dec.d3dDeviceContext_) ELSE s1
      s3 == IF s.dec.d3dTexture_ # Null
            THEN ComRelease(s2, s.dec.d3dTexture_) ELSE s2
      ctx == s.dec.m_HwDeviceContext
      s4 == IF ctx.live THEN HwDeviceContextFree(s3, ctx) ELSE s3
      s5 == ResetAvContext(s4)
  IN  [AvFrameUnref(s5) EXCEPT !.dec.m_HwFramesContext = FALSE,
                               !.dec.m_HwDeviceContext = NullCtx,
                               !.dec.av_frame_ = FALSE]

\* ------------------------------------------------------- D3D11 resources
\* CreateSharedTexture(width, height, device): device->CreateTexture2D().
\* `ok' is the driver's answer; no texture comes out of a null device or
\* out of a zero-sized description.
CreateSharedTexture(s, width, height, device, ok) ==
  LET s1 == IF device = Null
            THEN [s EXCEPT !.gpu.misuse = @ \cup {"texture_on_null_device"}]
            ELSE IF Released(s, device)
            THEN [s EXCEPT !.gpu.misuse = @ \cup {"texture_on_released_device"}]
            ELSE s
  IN  IF ok /\ device # Null /\ width > 0 /\ height > 0
      THEN LET s2 == NewHandle(s1, "texture", width, height)
           IN  [s |-> s2, texture |-> LastHandle(s2)]
      ELSE [s |-> s1, texture |-> Null]

\* int H264DecoderImpl::InitializeD3D11Device(); `ok' is D3D11CreateDevice's
\* answer.  The return value is ignored by the only caller.
InitializeD3D11Device(s, ok) ==
  IF s.dec.d3dDevice_ = Null /\ ok
  THEN LET s1 == NewHandle(s, "device", 0, 0)
           s2 == NewHandle(s1, "context", 0, 0)
       IN  [s2 EXCEPT !.dec.d3dDevice_ = LastHandle(s1),
                      !.dec.d3dDeviceContext_ = LastHandle(s2)]
  ELSE s

\* A replacement that leaks the previous surface.
InitializeD3D11Texture_NoRelease(s, width, height, ok) ==
  LET r == CreateSharedTexture(s, width, height, s.dec.d3dDevice_, ok)
  IN  [s |-> [r.s EXCEPT !.dec.d3dTexture_ = r.texture],
       hr |-> IF r.texture = Null THEN -1 ELSE 0]

\* int H264DecoderImpl::InitializeD3D11Texture(width, height)
InitializeD3D11Texture(s, width, height, ok) ==
  LET s1 == IF s.dec.d3dTexture_ # Null
            THEN ComRelease(s, s.dec.d3dTexture_) ELSE s
      r == CreateSharedTexture(s1, width, height, s1.dec.d3dDevice_, ok)
  IN  [s |-> [r.s EXCEPT !.dec.d3dTexture_ = r.texture],
       hr |-> IF r.texture = Null THEN -1 ELSE 0]

\* ------------------------------------------------------ format negotiation
\* The get_format callbacks installed by Configure (both walk the list and
\* return the hardware tag or AV_PIX_FMT_NONE).
RECURSIVE GetFormat(_)
GetFormat(pix_fmts) ==
  IF pix_fmts = <<>> THEN AV_PIX_FMT_NONE
  ELSE IF Head(pix_fmts) = AV_PIX_FMT_D3D11 THEN AV_PIX_FMT_D3D11
  ELSE GetFormat(Tail(pix_fmts))

\* -------------------------------------------------------------- Configure
\* RenderResolution::Valid()
Valid(resolution) == resolution[1] > 0 /\ resolution[2] > 0

\* Outcomes of the external calls made by Configure: avcodec_find_decoder,
\* D3D11CreateDevice, CreateTexture2D, avcodec_open2 ("hw": the first open
\* succeeds, "sw": only the second one does, "fail": neither) and
\* VideoFrameBufferPool::Resize.
ConfigureEnv ==
  { e \in [codec_found : BOOLEAN, device_ok : BOOLEAN, texture_ok : BOOLEAN,
           open : {"hw", "sw", "fail"}, resize_ok : BOOLEAN] :
      \* the answer of a call that is not made, or cannot succeed, is fixed
      /\ ~e.codec_found => (e.device_ok /\ e.open = "hw")
      /\ (~e.codec_found \/ ~e.device_ok) => e.texture_ok
      /\ (~e.codec_found \/ e.open = "fail") => e.resize_ok }

\* Settings: codec_type(), max_render_resolution(), buffer_pool_size().
SettingsSet ==
  [codec_type : CodecTypes, resolution : Hints, buffer_pool_size : {Null, 1}]

\* An outcome is listed once: the answer of a call that is not made, or
\* that cannot succeed, is fixed.
RelevantConfigure(settings, e) ==
  /\ settings.codec_type # kVideoCodecH264 =>
       /\ settings.resolution = <<0, 0>> /\ settings.buffer_pool_size = Null
       /\ e.codec_found /\ e.device_ok /\ e.texture_ok /\ e.open = "hw"
  /\ (dec.d3dDevice_ # Null) => e.device_ok
  /\ ~Valid(settings.resolution) => e.texture_ok
  /\ (settings.buffer_pool_size = Null) => e.resize_ok

\* Lines 403-461: a new AVCodecContext with the hardware tag preselected.
AllocContext(s, settings) ==
  LET id == s.engs.next + 1
  IN  [s EXCEPT !.dec.av_context_ = id,
                !.engs = [next |-> id, live |-> @.live \cup {id}],
                !.eng = [NoEngine EXCEPT !.pix_fmt = AV_PIX_FMT_D3D11]]

\* Lines 500-541: hardware device context, device, surface, frames context.
\* The results of av_hwdevice_ctx_init and av_hwframe_ctx_init only decide
\* whether the engine handle gets a reference of its own to the device
\* context (line 540); that reference dies with the handle in Release.
SetupHardware(s, settings, e) ==
  LET s1 == InitializeD3D11Device(s, e.device_ok)
      \* AVHWDeviceContext takes ownership of these objects
      s2 == [s1 EXCEPT !.dec.m_HwDeviceContext =
                          [live |-> TRUE, device |-> s1.dec.d3dDevice_,
                           device_context |-> s1.dec.d3dDeviceContext_],
                       !.gpu.misuse =
                          IF s1.dec.d3dDevice_ = Null
                          THEN @ \cup {"engine_given_null_device"}
                          ELSE IF Released(s1, s1.dec.d3dDevice_)
                          THEN @ \cup {"engine_given_released_device"}
                          ELSE @]
      s3 == InitializeD3D11Texture(s2, settings.resolution[1],
                                   settings.resolution[2], e.texture_ok).s
  IN  [s3 EXCEPT !.dec.m_HwFramesContext = TRUE]

\* The early return taken for a codec that is not H.264 (lines 390-393).
RejectCodec(s) == [s |-> ReportError(s), ret |-> FALSE]

\* bool H264DecoderImpl::Configure(const Settings& settings)
ConfigureOp(s0, settings, e) ==
  LET s1 == ReportInit(s0)
  IN
  IF settings.codec_type # kVideoCodecH264 THEN RejectCodec(s1)
  ELSE
  LET s2 == AllocContext(ReleaseOp(s1), settings)
  IN
  IF ~e.codec_found THEN [s |-> ReportError(ReleaseOp(s2)), ret |-> FALSE]
  ELSE
  LET s3 == SetupHardware(s2, settings, e)
  IN
  IF e.open = "fail"
  THEN [s |-> ReportError(ReleaseOp(s3)), ret |-> FALSE]
  ELSE
  LET s4 == [s3 EXCEPT !.eng.hwaccel = (e.open = "hw"),
                       !.eng.get_buffer2 = (e.open = "sw"),
                       !.dec.av_frame_ = TRUE]
  IN
  IF settings.buffer_pool_size # Null /\ ~e.resize_ok
  THEN [s |-> s4, ret |-> FALSE]
  ELSE [s |-> s4, ret |-> TRUE]

\* ------------------------------------------------------------------ Decode
\* EncodedImage: data() non-null or not, size(), an explicit ColorSpace or
\* none, Timestamp() and ntp_time_ms_.  Packets are numbered in submission
\* order and carry their number as both time stamps.
Packets(n) ==
  [data : BOOLEAN, size : PacketSizes, color_space : BOOLEAN,
   timestamp : {n}, ntp_time_ms_ : {n}]

\* The surface the engine returns in av_frame_->data[0] on the hardware
\* path; it belongs to the engine's own frame pool.
EngineSurface == 255

\* Outcomes of the external calls made by Decode: av_packet_alloc, the
\* candidate list of a format negotiation, avcodec_send_packet,
\* avcodec_receive_frame, the picture (its dimensions, and whether its
\* reordered_opaque is the one of an earlier packet), CreateTexture2D, and
\* whether this is a build with RTC_DCHECK_IS_ON.
DecodeEnv ==
  { e \in [packet_ok : BOOLEAN, pix_fmts : FormatLists, send_ok : BOOLEAN,
           receive_ok : BOOLEAN, dims : PicDims, stale : BOOLEAN,
           texture_ok : BOOLEAN, dcheck : BOOLEAN, sw : {NoSwPicture},
           surface : {EngineSurface}] :
      \* the answer of a call that is not made is fixed
      LET unsent == ~e.packet_ok
          unreceived == unsent \/ ~e.send_ok
                        \/ e.pix_fmts = <<AV_PIX_FMT_YUV420P>>
          nopicture == unreceived \/ ~e.receive_ok
      IN  /\ unsent => (e.send_ok /\ e.pix_fmts = <<AV_PIX_FMT_D3D11>>)
          /\ ~e.send_ok => e.pix_fmts = <<AV_PIX_FMT_D3D11>>
          /\ unreceived => e.receive_ok
          /\ nopicture => (e.dims = <<2, 2>> /\ ~e.stale)
          /\ ~e.stale => ~e.dcheck
          /\ (nopicture \/ (e.stale /\ e.dcheck)) => e.texture_ok }

HasCallback_Always(s) == TRUE

HasCallback(s) == s.dec.decoded_image_callback_ # Null

PacketEmpty_DataOnly(pkt) == ~pkt.data

\* !input_image.data() || !input_image.size()
PacketEmpty(pkt) == ~pkt.data \/ pkt.size = <<0, 0>>

\* input_image.size() > numeric_limits<int>::max()
PacketTooLarge(pkt) == pkt.size[1] > 0 \/ pkt.size[2] > IntMax

\* The error code returned for a packet that is too large (line 673).
TooLargeCode == WEBRTC_VIDEO_CODEC_ERROR

\* int64_t frame_timestamp_us = input_image.ntp_time_ms_ * 1000
FrameTimestampUs(pkt) == pkt.ntp_time_ms_ * 1000

\* VideoFrameBuffer::Type of the pooled buffer AVGetBuffer2 hands out for
\* a software format (switch at line 130); AV_PIX_FMT_D3D11 passes the
\* RTC_CHECK of line 88 and takes the default branch.
BufferType(pix_fmt) ==
  CASE pix_fmt \in {AV_PIX_FMT_YUV420P, AV_PIX_FMT_YUVJ420P} -> "kI420"
    [] pix_fmt \in {AV_PIX_FMT_YUV444P, AV_PIX_FMT_YUVJ444P} -> "kI444"
    [] pix_fmt \in {AV_PIX_FMT_YUV422P, AV_PIX_FMT_YUVJ422P} -> "kI422"
    [] pix_fmt = AV_PIX_FMT_YUV420P10LE -> "kI010"
    [] pix_fmt = AV_PIX_FMT_YUV422P10LE -> "kI210"
    [] pix_fmt = AV_PIX_FMT_YUV444P10LE -> "kI410"
    [] pix_fmt = AV_PIX_FMT_NV12 -> "kNV12"
    [] OTHER -> "kNative"

\* bytes_per_pixel of AVGetBuffer2: 2 for the 10-bit formats.
BytesPerPixel(type) == IF type \in {"kI010", "kI210", "kI410"} THEN 2 ELSE 1

\* ----------------------------------------------------- pooled buffers
\* Layout of the planar buffers of api/video (I420Buffer and the like):
\* the planes follow each other from the start of one allocation, the
\* luma stride is the width and the chroma stride the chroma width, both
\* in samples.  A pointer is a byte address inside the allocation of one
\* buffer, which starts at BufferBase; 0 is the null pointer.
BufferBase == 64

HalvedWidth(type) == type \in {"kI420", "kI422", "kI010", "kI210", "kNV12"}
HalvedHeight(type) == type \in {"kI420", "kI010", "kNV12"}

ChromaWidth(type, width) ==
  IF HalvedWidth(type) THEN (width + 1) \div 2 ELSE width
ChromaHeight(type, height) ==
  IF HalvedHeight(type) THEN (height + 1) \div 2 ELSE height

\* StrideY/StrideU/StrideV of a buffer, in samples; NV12 has one
\* interleaved chroma plane of stride width + width % 2.
Stride(b, plane) ==
  IF plane = kYPlaneIndex THEN b.width
  ELSE IF b.type = "kNV12" THEN b.width + (b.width % 2)
  ELSE ChromaWidth(b.type, b.width)

\* Rows of a plane of the allocation.
Rows(b, plane) ==
  IF plane = kYPlaneIndex THEN b.height ELSE ChromaHeight(b.type, b.height)

\* DataY/DataU/DataV of a buffer, as byte addresses.
RECURSIVE Data(_, _)
Data(b, plane) ==
  IF plane = kYPlaneIndex THEN BufferBase
  ELSE Data(b, plane - 1)
       + Stride(b, plane - 1) * Rows(b, plane - 1) * BytesPerPixel(b.type)

\* The pool of a new decoder, the AVBuffers that reference pooled buffers
\* and the frames the consumer holds.
NoSw == [pool |-> <<>>, avbufs |-> {}, held |-> {}]

\* HasOneRef(): only the pool references the buffer.
HasOneRef(b) == b.refs = 0

\* VideoFrameBufferPool::Create*Buffer(width, height): a buffer of this
\* shape that nobody but the pool references is handed out again, a new
\* zero-initialised one is allocated otherwise.  `lease' counts the times
\* the buffer was handed out.
CreateBuffer(s, type, width, height) ==
  LET pool == s.sw.pool
      free == { i \in DOMAIN pool :
                  /\ pool[i].type = type /\ pool[i].width = width
                  /\ pool[i].height = height /\ HasOneRef(pool[i]) }
  IN  IF free # {}
      THEN LET i == CHOOSE i \in free : \A j \in free : i <= j
           IN  [s |-> [s EXCEPT !.sw.pool[i].lease = @ + 1], buffer |-> i]
      ELSE [s |-> [s EXCEPT !.sw.pool =
                      Append(@, [type |-> type, width |-> width,
                                 height |-> height, refs |-> 0,
                                 lease |-> 1])],
            buffer |-> Len(pool) + 1]

\* ------------------------------------------------ AVGetBuffer2 and its kin
\* An AVFrame without data: null plane pointers, no AVBuffer.
NoFrame == [width |-> 0, height |-> 0, data |-> <<Null, Null, Null>>,
            linesize |-> <<0, 0, 0>>,
            buf |-> [buffer |-> Null, lease |-> 0]]

AVGetBuffer2Result(s, ret, frame, abort) ==
  [s |-> s, ret |-> ret, frame |-> frame, aborted |-> abort]

\* Lines 136-265 of AVGetBuffer2: av_frame is set up on the buffer c the
\* pool handed out, and an AVBuffer that holds a reference to it is made.
SetUpFrame(c, type, width, height, aligned, dcheck) ==
  LET b == c.s.sw.pool[c.buffer]
      bytes_per_pixel == BytesPerPixel(type)
      \* the NV12 case sets data[0] and data[1] only
      data == [p \in 1..3 |->
                 IF type = "kNV12" /\ p = kVPlaneIndex THEN Null
                 ELSE Data(b, p)]
      linesize == [p \in 1..3 |->
                     IF type = "kNV12" /\ p = kVPlaneIndex THEN 0
                     ELSE Stride(b, p) * bytes_per_pixel]
      y_size == aligned[1] * aligned[2] * bytes_per_pixel
      uv_size == ChromaWidth(type, b.width) * ChromaHeight(type, b.height)
                 * bytes_per_pixel
      continuous == /\ data[kUPlaneIndex] = data[kYPlaneIndex] + y_size
                    /\ data[kVPlaneIndex] = data[kUPlaneIndex] + uv_size
      \* av_buffer_create(..., AVFreeBuffer2, new VideoFrame(frame_buffer))
      buf == [buffer |-> c.buffer, lease |-> b.lease]
      holder == [buffer |-> c.buffer, lease |-> b.lease,
                 frame |-> FALSE, engine |-> TRUE]
  IN  IF dcheck /\ ~continuous
      THEN AVGetBuffer2Result(c.s, -1, NoFrame, TRUE)
      ELSE AVGetBuffer2Result(
             [AddRef(c.s, c.buffer) EXCEPT !.sw.avbufs = @ \cup {holder}],
             0,
             [width |-> width, height |-> height, data |-> data,
              linesize |-> linesize, buf |-> buf],
             FALSE)

\* int H264DecoderImpl::AVGetBuffer2(context, av_frame, flags)
AVGetBuffer2(s, width, height, g, dcheck) ==
  LET type == BufferType(s.eng.pix_fmt)
      \* avcodec_align_dimensions(context, &width, &height)
      aligned == <<width + g.pad, height + g.pad>>
  IN
  IF s.eng.pix_fmt \notin kPixelFormatsSupported \/ aligned[1] < 0
     \/ aligned[2] < 0
  THEN AVGetBuffer2Result(s, -1, NoFrame, TRUE)
  ELSE IF ~g.size_ok THEN AVGetBuffer2Result(ReportError(s), -1, NoFrame, FALSE)
  ELSE IF type = "kNative"
  THEN AVGetBuffer2Result(ReportError(s), -1, NoFrame, FALSE)
  ELSE SetUpFrame(CreateBuffer(s, type, aligned[1], aligned[2]), type,
                  width, height, aligned, dcheck)

\* The engine decodes into the storage g that AVGetBuffer2 returned and
\* makes av_frame_ a reference to it, keeping its own or not.
ReferenceFrame(g, e) ==
  LET a == [buffer |-> g.frame.buf.buffer, lease |-> g.frame.buf.lease,
            frame |-> FALSE, engine |-> TRUE]
  IN  IF g.aborted \/ g.ret < 0 THEN g
      ELSE [g EXCEPT !.s.sw.avbufs =
                        (@ \ {a}) \cup {[a EXCEPT !.frame = TRUE,
                                                  !.engine = e.sw.keeps]}]

\* avcodec_receive_frame on a software format: the engine drops what
\* av_frame_ referenced and asks AVGetBuffer2 for storage.
ReceiveFrame(s, e) ==
  IF s.eng.pix_fmt = AV_PIX_FMT_D3D11
  THEN AVGetBuffer2Result(s, 0, NoFrame, FALSE)
  ELSE ReferenceFrame(AVGetBuffer2(AvFrameUnref(s), e.dims[1], e.dims[2],
                                   e.sw, e.dcheck), e)

\* Bytes by which cropping moved the pointer of a plane (comment at line
\* 840): rows times the line size plus columns times the sample size,
\* both halved on a subsampled chroma plane.
CropOffset(type, linesize, plane, g) ==
  IF plane = kYPlaneIndex
  THEN g.top * linesize[plane] + g.left * BytesPerPixel(type)
  ELSE (IF HalvedHeight(type) THEN g.top \div 2 ELSE g.top) * linesize[plane]
       + (IF HalvedWidth(type) THEN g.left \div 2 ELSE g.left)
         * BytesPerPixel(type)

\* av_frame_ as the engine fills it for the software branch.
SoftwarePicture(picture, type, frame, g) ==
  [width |-> frame.width - g.shrink, height |-> frame.height - g.shrink,
   reordered_opaque |-> picture.reordered_opaque, data0 |-> Null,
   data |-> [p \in 1..3 |->
               IF frame.data[p] = Null THEN Null
               ELSE frame.data[p] + CropOffset(type, frame.linesize, p, g)],
   linesize |-> frame.linesize, buf |-> frame.buf]

\* A return that hands nothing to the consumer.
Result_NoFrames(s, ret, submits, receives, frames) ==
  [s |-> s, ret |-> ret, submits |-> submits, receives |-> receives,
   frames |-> <<>>, aborted |-> FALSE, picture |-> NoFrame]

\* What a Decode call did; `picture' is the software picture av_frame_
\* held when the software branch was entered.
Result(s, ret, submits, receives, frames) ==
  [s |-> s, ret |-> ret, submits |-> submits, receives |-> receives,
   frames |-> frames, aborted |-> FALSE, picture |-> NoFrame]

\* An error return of Decode that leaves the engine alone.
FailDecode_Releases(s, ret, submits, receives) ==
  Result(ReleaseOp(ReportError(s)), ret, submits, receives, <<>>)

FailDecode(s, ret, submits, receives) ==
  Result(ReportError(s), ret, submits, receives, <<>>)

\* set_timestamp_rtp(input_image.Timestamp()) of the delivered frame.
TimestampRtp_FromPicture(pkt, picture) == picture.reordered_opaque \div 1000

TimestampRtp(pkt, picture) == pkt.timestamp

\* The descriptor extracted from the stream wins.
ColorSpaceOf_StreamFirst(pkt) == "stream"

\* Pass on color space from input frame if explicitly specified.
ColorSpaceOf(pkt) == IF pkt.color_space THEN "packet" ELSE "stream"

\* The frame wraps the session's own texture.
NativeHandle_SessionTexture(s, picture) == s.dec.d3dTexture_

\* ID3D11Texture2D* texture = (ID3D11Texture2D*)av_frame_->data[0], the
\* handle the NativeHandleBuffer of the delivered frame carries.
NativeHandle(s, picture) == picture.data0

\* Lines 704-782: the picture is a D3D11 surface.
DecodeHardware(s, pkt, picture, e) ==
  LET resized == picture.width # s.dec.texture_width
                 \/ picture.height # s.dec.texture_height
      s1 == IF resized
            THEN [s EXCEPT !.dec.texture_width = picture.width,
                           !.dec.texture_height = picture.height]
            ELSE s
      r == IF resized
           THEN InitializeD3D11Texture(s1, picture.width, picture.height,
                                       e.texture_ok)
           ELSE [s |-> s1, hr |-> 0]
  IN  IF r.hr # 0
      THEN Result(r.s, WEBRTC_VIDEO_CODEC_ERROR, 1, 1, <<>>)
      ELSE Result(r.s, WEBRTC_VIDEO_CODEC_OK, 1, 1,
                  << [timestamp |-> TimestampRtp(pkt, picture),
                      color_space |-> ColorSpaceOf(pkt),
                      native |-> NativeHandle(r.s, picture),
                      pooled |-> Null, lease |-> 0, planes |-> <<>>,
                      width |-> r.s.dec.texture_width,
                      height |-> r.s.dec.texture_height,
                      callback |-> s.dec.decoded_image_callback_] >>)

\* The planar types the switches of lines 796-838 and 914-984 know.
PlanarTypes == {"kI420", "kI444", "kI422", "kI010", "kI210", "kI410"}

\* RTC_DCHECK_LE / RTC_DCHECK_GE of lines 843-898: the luma plane is
\* checked over the picture's rows, the chroma planes over the chroma rows
\* of the allocation.
BoundsChecks(b, picture) ==
  /\ picture.width <= b.width
  /\ picture.height <= b.height
  /\ \A p \in 1..3 :
       /\ picture.data[p] >= Data(b, p)
       /\ picture.data[p]
            + picture.linesize[p]
              * (IF p = kYPlaneIndex THEN picture.height
                 ELSE ChromaHeight(b.type, b.height))
          <= Data(b, p) + Stride(b, p) * BytesPerPixel(b.type) * Rows(b, p)

\* The stride handed to Wrap*Buffer, in samples: linesize, halved for the
\* 16-bit buffers.
WrapStride(type, linesize) ==
  IF BytesPerPixel(type) = 2 THEN linesize \div 2 ELSE linesize

\* The cropped buffer advertises the size of the allocation.
WrapSize_Allocation(b, picture) == <<b.width, b.height>>

\* av_frame_->width, av_frame_->height handed to Wrap*Buffer.
WrapSize(b, picture) == <<picture.width, picture.height>>

\* The cropped buffer holds no reference to the pooled buffer.
KeepsReference_Not(type) == FALSE

\* [frame_buffer] {}: the no-op callback of the wrapped buffer captures a
\* reference to the pooled buffer.
KeepsReference(type) == type \in PlanarTypes

\* Lines 784-1006: the picture lives in a pooled buffer.  The frame wraps
\* the picture's planes and size and is handed to the consumer, who keeps
\* it until it drops it; av_frame_ is unreferenced after the delivery.
\* The bounds checks exist in builds with RTC_DCHECK_IS_ON only.
DeliverSoftware(s, pkt, picture, e) ==
  LET buffer == picture.buf.buffer
      b == s.sw.pool[buffer]
      size == WrapSize(b, picture)
  IN
  IF b.type \notin PlanarTypes
  THEN FailDecode(s, WEBRTC_VIDEO_CODEC_ERROR, 1, 1)
  ELSE IF e.dcheck /\ ~BoundsChecks(b, picture)
  THEN [Result(s, "aborted", 1, 1, <<>>) EXCEPT !.aborted = TRUE]
  ELSE
  LET view == [buffer |-> buffer, lease |-> picture.buf.lease,
               keeps |-> KeepsReference(b.type)]
      s1 == IF view.keeps THEN AddRef(s, buffer) ELSE s
      s2 == [s1 EXCEPT !.sw.held = @ \cup {view}]
  IN  Result(AvFrameUnref(s2), WEBRTC_VIDEO_CODEC_OK, 1, 1,
             << [timestamp |-> TimestampRtp(pkt, picture),
                 color_space |-> ColorSpaceOf(pkt),
                 native |-> Null, pooled |-> buffer,
                 lease |-> picture.buf.lease,
                 planes |-> [p \in 1..3 |->
                               [data |-> picture.data[p],
                                stride |-> WrapStride(b.type,
                                                      picture.linesize[p])]],
                 width |-> size[1], height |-> size[2],
                 callback |-> s.dec.decoded_image_callback_] >>)

\* The software branch of Decode, with the AVFrame it worked on.
DecodeSoftware(s, pkt, picture, e) ==
  [DeliverSoftware(s, pkt, picture, e)
     EXCEPT !.picture = [width |-> picture.width, height |-> picture.height,
                         data |-> picture.data,
                         linesize |-> picture.linesize,
                         buf |-> picture.buf]]

\* avcodec_send_packet: the engine negotiates the output format through
\* get_format when it has none yet, and refuses the packet when the
\* callback returns AV_PIX_FMT_NONE.
Negotiating(s) == ~s.eng.negotiated

SendFails_Never(s, e) == FALSE

SendFails(s, e) ==
  ~e.send_ok \/ (Negotiating(s) /\ GetFormat(e.pix_fmts) = AV_PIX_FMT_NONE)

\* Lines 693-1006: g is what avcodec_receive_frame left, picture the
\* AVFrame it filled; check the round-tripped opaque, build and deliver the
\* frame.
DeliverReceived(g, pix_fmt, pkt, picture, e) ==
  \* RTC_CHECK and RTC_DCHECK of AVGetBuffer2
  IF g.aborted
  THEN [Result(g.s, "aborted", 1, 1, <<>>) EXCEPT !.aborted = TRUE]
  \* a refused buffer fails the engine call that asked for it
  ELSE IF g.ret < 0 THEN FailDecode(g.s, WEBRTC_VIDEO_CODEC_ERROR, 1, 1)
  \* RTC_DCHECK_EQ(av_frame_->reordered_opaque, frame_timestamp_us)
  ELSE IF e.dcheck /\ picture.reordered_opaque # FrameTimestampUs(pkt)
  THEN [Result(g.s, "aborted", 1, 1, <<>>) EXCEPT !.aborted = TRUE]
  ELSE IF pix_fmt = AV_PIX_FMT_D3D11
  THEN DecodeHardware(g.s, pkt, picture, e)
  ELSE DecodeSoftware(g.s, pkt,
                      SoftwarePicture(picture, BufferType(pix_fmt),
                                      g.frame, e.sw), e)

\* Lines 676-692: submit the packet and retrieve a frame.
SubmitAndDeliver(s0, pkt, e) ==
  LET s1 == [s0 EXCEPT !.eng.reordered_opaque = FrameTimestampUs(pkt)]
  IN
  IF SendFails(s1, e) THEN FailDecode(s1, WEBRTC_VIDEO_CODEC_ERROR, 1, 0)
  ELSE
  LET s2 == [s1 EXCEPT !.eng.negotiated = TRUE,
                       !.eng.pix_fmt = IF Negotiating(s1)
                                       THEN GetFormat(e.pix_fmts) ELSE @,
                       !.eng.prev_opaque = FrameTimestampUs(pkt)]
  IN
  IF ~e.receive_ok
  THEN FailDecode(AvFrameUnref(s2), WEBRTC_VIDEO_CODEC_ERROR, 1, 1)
  ELSE DeliverReceived(
         ReceiveFrame(s2, e), s2.eng.pix_fmt, pkt,
         [width |-> e.dims[1], height |-> e.dims[2],
          reordered_opaque |-> IF e.stale THEN s1.eng.prev_opaque
                               ELSE s1.eng.reordered_opaque,
          data0 |-> e.surface],
         e)

\* int32_t H264DecoderImpl::Decode(const EncodedImage& input_image, ...)
DecodeOp(s, pkt, e) ==
  IF ~IsInitialized(s)
  THEN FailDecode(s, WEBRTC_VIDEO_CODEC_UNINITIALIZED, 0, 0)
  ELSE IF ~HasCallback(s)
  THEN FailDecode(s, WEBRTC_VIDEO_CODEC_UNINITIALIZED, 0, 0)
  ELSE IF PacketEmpty(pkt)
  THEN FailDecode(s, WEBRTC_VIDEO_CODEC_ERR_PARAMETER, 0, 0)
  ELSE IF ~e.packet_ok
  THEN FailDecode(s, WEBRTC_VIDEO_CODEC_ERROR, 0, 0)
  ELSE IF PacketTooLarge(pkt)
  THEN FailDecode(s, TooLargeCode, 0, 0)
  ELSE SubmitAndDeliver(s, pkt, e)

\* An outcome is listed once: the answer of a call that is not made is
\* fixed.
RelevantDecode(pkt, e) ==
  LET rejected == dec.av_context_ = Null \/ dec.decoded_image_callback_ = Null
                  \/ ~pkt.data \/ pkt.size = <<0, 0>>
      unsent == rejected \/ pkt.size = <<1, 0>>
  IN  /\ unsent => (e.packet_ok /\ e.send_ok /\ e.receive_ok
                    /\ e.dims = <<2, 2>> /\ ~e.stale /\ e.texture_ok)
      /\ (unsent \/ eng.negotiated) => e.pix_fmts = <<AV_PIX_FMT_D3D11>>
      /\ (eng.prev_opaque = 0) => ~e.stale
      /\ (e.dims = <<dec.texture_width, dec.texture_height>>) => e.texture_ok

\* --------------------------------------------------------- call bookkeeping
\* The answers of an engine that is not asked anything.
NoEnv == [packet_ok |-> TRUE, pix_fmts |-> <<AV_PIX_FMT_D3D11>>,
          send_ok |-> TRUE, receive_ok |-> TRUE, dims |-> <<2, 2>>,
          stale |-> FALSE, texture_ok |-> TRUE, dcheck |-> FALSE,
          sw |-> NoSwPicture, surface |-> EngineSurface]

NoCall == [op |-> "none", ret |-> "none", pre_init |-> FALSE, pre_cb |-> Null,
           pre_ctx |-> Null, codec |-> "none", size |-> <<0, 0>>,
           data |-> FALSE,
           timestamp |-> 0, submits |-> 0, receives |-> 0, delivers |-> 0,
           pre_failed |-> 0, ev |-> <<>>,
           pre_tex |-> Null, pre_dims |-> <<0, 0>>, pre_negotiated |-> FALSE,
           e |-> NoEnv, picture |-> NoFrame, callback |-> Null,
           explicit |-> FALSE]

\* Record of the call that just returned: its result, what held when it
\* was entered and what it did.
Call(op, ret, s) ==
  [NoCall EXCEPT !.op = op, !.ret = ret,
                 !.pre_init = (dec.av_context_ # Null),
                 !.pre_cb = dec.decoded_image_callback_,
                 !.pre_ctx = dec.av_context_, !.ev = s.ev,
                 !.pre_tex = dec.d3dTexture_,
                 !.pre_dims = <<dec.texture_width, dec.texture_height>>,
                 !.pre_negotiated = eng.negotiated]

\* The state a decoder call leaves; no decoder call touches the adapter
\* duplicator or the encoder.
Commit(s) ==
  /\ dec' = s.dec
  /\ eng' = s.eng
  /\ gpu' = s.gpu
  /\ engs' = s.engs
  /\ tel' = s.tel
  /\ sw' = s.sw
  /\ UNCHANGED <<adapter, encoder>>

Running == alive /\ ~aborted

\* --------------------------------------------------- DxgiAdapterDuplicator
\* A bool initialised from an int, as in a return statement of a function
\* that returns bool: zero is false, everything else is true.
IntToBool(x) == x # 0

\* What happens to one output of the adapter in the loop of DoInitialize:
\* EnumOutputs answers NOT_CURRENTLY_AVAILABLE, or something unexpected;
\* GetDesc fails; the output is detached or its rectangle is not valid; it
\* has no IDXGIOutput1; its DxgiOutputDuplicator does not initialise; or
\* the duplicator is stored.  After the last output EnumOutputs answers
\* DXGI_ERROR_NOT_FOUND.
OutputOutcomes ==
  { "not_available", "unexpected", "desc_failed", "ignored", "no_output1",
    "init_failed", "stored" }

OutputLists ==
  { outs \in UNION { [1..n -> OutputOutcomes] : n \in 0..MaxOutputs } :
      \* nothing is enumerated after the loop has been left
      \A i \in DOMAIN outs : outs[i] = "not_available" => i = Len(outs) }

\* Outcomes of the external calls of DoInitialize: QueryInterface for the
\* DXGI device interface and the enumeration of the outputs.
AdapterEnv ==
  { e \in [query_ok : BOOLEAN, outputs : OutputLists] :
      ~e.query_ok => e.outputs = <<>> }

\* DxgiAdapterDuplicator(const D3dDevice& device); `ret' is what
\* Initialize returned ("none": not called yet) and `e' what it met.
AdapterConstructed ==
  [duplicators_ |-> <<>>, desktop_rect_ |-> {}, ret |-> "none",
   e |-> [query_ok |-> TRUE, outputs |-> <<>>]]

\* Lines 111-166: the loop over the outputs, from output i on.  The
\* rectangle is kept as the set of outputs united into it.
RECURSIVE EnumOutputs(_, _, _)
EnumOutputs(a, outs, i) ==
  IF i > Len(outs) THEN a
  ELSE IF outs[i] = "not_available" THEN a
  ELSE IF outs[i] = "stored"
  THEN EnumOutputs([a EXCEPT !.duplicators_ = Append(@, i - 1),
                             !.desktop_rect_ = @ \cup {i - 1}],
                   outs, i + 1)
  ELSE EnumOutputs(a, outs, i + 1)

\* bool DxgiAdapterDuplicator::DoInitialize(); the priority and latency
\* requests of lines 66-109 change nothing in the object.
DoInitialize(a, e) ==
  IF ~e.query_ok THEN [a |-> a, ret |-> IntToBool(-1)]
  ELSE [a |-> EnumOutputs(a, e.outputs, 1),
        ret |-> EnumOutputs(a, e.outputs, 1).duplicators_ # <<>>]

\* bool DxgiAdapterDuplicator::Initialize()
Initialize(a, e) ==
  IF DoInitialize(a, e).ret
  THEN [a |-> DoInitialize(a, e).a, ret |-> TRUE]
  ELSE [a |-> [DoInitialize(a, e).a EXCEPT !.duplicators_ = <<>>],
        ret |-> FALSE]

\* --------------------------------------------------------------- FFEncoder
\* VideoCodec: width (Rec. 709 up to 1920, Rec. 2020 above); the other
\* settings are fixed.
EncoderWidths == { 1280, 3840 }

\* The device the owner of the encoder put in hw_device before init().
EncoderDevice == 1

\* Outcomes of the external calls of init: the two encoder lookups,
\* av_hwdevice_ctx_init, av_hwframe_ctx_init and avcodec_open2 (zero or a
\* negative AVERROR), and whether this is a build with RTC_DCHECK_IS_ON.
EncoderEnv ==
  { e \in [found : BOOLEAN, fallback_found : BOOLEAN, device_init : {0, -1},
           frames_init : {0, -1}, open : {0, -1}, dcheck : BOOLEAN] :
      \* the answer of a call that is not made is fixed
      LET nocodec == ~e.found /\ ~e.fallback_found
          nodevice == nocodec \/ e.device_init # 0
          noframes == nodevice \/ e.frames_init # 0
      IN  /\ e.found => e.fallback_found
          /\ nocodec => (e.device_init = 0 /\ ~e.dcheck)
          /\ nodevice => e.frames_init = 0
          /\ noframes => e.open = 0 }

NoEncoderEnv ==
  [found |-> TRUE, fallback_found |-> TRUE, device_init |-> 0,
   frames_init |-> 0, open |-> 0, dcheck |-> FALSE]

\* A null av_context_.
NoEncoderContext ==
  [allocated |-> FALSE, width |-> 0, colorspace |-> "none",
   sw_pix_fmt |-> AV_PIX_FMT_NONE, pix_fmt |-> AV_PIX_FMT_NONE,
   hw_frames_ctx |-> FALSE, opened |-> FALSE]

\* FFEncoder::FFEncoder() : hardware(true); `device_refs' counts the
\* AddRef calls the encoder made on the device, `ret' is what init returned
\* ("none": not called yet, "aborted": it did not return) and `e' what it
\* met.
EncoderConstructed ==
  [hardware |-> TRUE, hw_device |-> EncoderDevice, d3dDevice_ |-> Null,
   device_refs |-> 0, av_context_ |-> NoEncoderContext,
   m_HwDeviceContext |-> FALSE,
   frame_ref |-> FALSE, av_frame_ |-> FALSE, calls |-> 0, ret |-> "none",
   e |-> NoEncoderEnv]

\* Lines 48-94: the fields of the new AVCodecContext that depend on the
\* settings or are changed later in init.
NewEncoderContext(width, hardware) ==
  [allocated |-> TRUE, width |-> width,
   colorspace |-> IF width <= 1920 THEN "AVCOL_SPC_BT709"
                  ELSE "AVCOL_SPC_BT2020_NCL",
   sw_pix_fmt |-> AV_PIX_FMT_NV12,
   pix_fmt |-> IF hardware THEN AV_PIX_FMT_D3D11 ELSE AV_PIX_FMT_NONE,
   hw_frames_ctx |-> FALSE, opened |-> FALSE]

EncoderReturn(enc, ret) ==
  [enc EXCEPT !.ret = IF ret THEN "true" ELSE "false"]

\* bool FFEncoder::init(codec_name, codec_settings)
EncoderInit(enc0, width, e) ==
  LET enc1 == [enc0 EXCEPT !.d3dDevice_ = enc0.hw_device]
  IN
  IF ~e.found /\ ~e.fallback_found THEN EncoderReturn(enc1, FALSE)
  \* RTC_DCHECK(!av_context_)
  ELSE IF e.dcheck /\ enc1.av_context_.allocated
  THEN [enc1 EXCEPT !.ret = "aborted"]
  ELSE
  LET enc2 == [enc1 EXCEPT
                 !.av_context_ = NewEncoderContext(width, enc1.hardware),
                 !.m_HwDeviceContext = enc1.hardware,
                 !.device_refs = IF enc1.hardware THEN @ + 1 ELSE @]
  IN
  IF enc2.hardware /\ e.device_init # 0 THEN EncoderReturn(enc2, FALSE)
  ELSE
  LET enc3 == [enc2 EXCEPT !.frame_ref = enc2.hardware]
  IN
  \* if (err < 0) return err;
  IF enc3.hardware /\ e.frames_init < 0
  THEN EncoderReturn(enc3, IntToBool(e.frames_init))
  ELSE
  LET enc4 == [enc3 EXCEPT !.av_context_.hw_frames_ctx = enc3.hardware]
  IN
  IF e.open # 0 THEN EncoderReturn(enc4, FALSE)
  ELSE EncoderReturn([enc4 EXCEPT !.av_context_.opened = TRUE,
                                  !.av_frame_ = TRUE], TRUE)

\* ------------------------------------------------------------------- Init
Init ==
  /\ dec = Constructed
  /\ eng = NoEngine
  /\ gpu = [table |-> <<>>, misuse |-> {}]
  /\ engs = [next |-> 0, live |-> {}]
  /\ tel = [init |-> 0, error |-> 0]
  /\ sw = NoSw
  /\ delivered = <<>>
  /\ accepted = <<>>
  /\ last = NoCall
  /\ calls = 0
  /\ alive = TRUE
  /\ aborted = FALSE
  /\ adapter = AdapterConstructed
  /\ encoder = EncoderConstructed

\* ---------------------------------------------------------------- actions
Release ==
  /\ Running /\ calls < MaxCalls
  /\ LET s == ReleaseOp(World)
     IN  /\ Commit(s)
         /\ last' = Call("Release", WEBRTC_VIDEO_CODEC_OK, s)
  /\ calls' = calls + 1
  /\ UNCHANGED <<delivered, accepted, alive, aborted>>

\* H264DecoderImpl::~H264DecoderImpl()
Destructor ==
  /\ Running
  /\ LET s == ReleaseOp(World)
     IN  /\ Commit(s)
         /\ last' = Call("Destructor", "none", s)
  /\ alive' = FALSE
  /\ UNCHANGED <<delivered, accepted, calls, aborted>>

\* A registration that does not replace a consumer already there.
RegisterDecodeCompleteCallbackOp_KeepsFirst(s, callback) ==
  IF s.dec.decoded_image_callback_ # Null THEN s
  ELSE [s EXCEPT !.dec.decoded_image_callback_ = callback]

\* int32_t H264DecoderImpl::RegisterDecodeCompleteCallback(callback);
\* always returns WEBRTC_VIDEO_CODEC_OK.
RegisterDecodeCompleteCallbackOp(s, callback) ==
  [s EXCEPT !.dec.decoded_image_callback_ = callback]

RegisterDecodeCompleteCallback ==
  /\ Running
  /\ \E callback \in Callbacks :
       /\ callback # dec.decoded_image_callback_
       /\ Commit(RegisterDecodeCompleteCallbackOp(World, callback))
  /\ UNCHANGED <<delivered, accepted, last, calls, alive, aborted>>

\* One Configure call with the answers e of the calls it makes.
ConfigureWith(settings, e) ==
  /\ LET r == ConfigureOp(World, settings, e)
     IN  /\ Commit(r.s)
         /\ last' = [Call("Configure",
                          IF r.ret THEN "true" ELSE "false", r.s)
                       EXCEPT !.codec = settings.codec_type]
  /\ calls' = calls + 1
  /\ UNCHANGED <<delivered, accepted, alive, aborted>>

Configure ==
  /\ Running /\ calls < MaxCalls
  /\ \E settings \in SettingsSet, e \in ConfigureEnv :
       /\ RelevantConfigure(settings, e)
       /\ ConfigureWith(settings, e)

PerFrameErrors ==
  {WEBRTC_VIDEO_CODEC_ERROR, WEBRTC_VIDEO_CODEC_ERR_PARAMETER}

\* One Decode call on packet pkt with the answers e of the calls it makes.
DecodeWith(pkt, e) ==
  /\ LET r == DecodeOp(World, pkt, e)
         \* bookkeeping: has a Decode on this engine failed before
         s == IF r.ret \in PerFrameErrors /\ r.s.dec.av_context_ # Null
              THEN [r.s EXCEPT !.eng.failed = 1] ELSE r.s
     IN  /\ Commit(s)
         /\ last' = [Call("Decode", r.ret, s)
                       EXCEPT !.size = pkt.size, !.data = pkt.data,
                              !.timestamp = pkt.timestamp,
                              !.submits = r.submits,
                              !.receives = r.receives,
                              !.delivers = Len(r.frames),
                              \* input_image.ColorSpace() of a packet whose
                              \* picture was delivered
                              !.explicit = (pkt.color_space
                                            /\ Len(r.frames) > 0),
                              !.pre_failed = eng.failed,
                              !.e = e, !.picture = r.picture]
         /\ delivered' = delivered \o r.frames
         /\ accepted' = IF r.ret = WEBRTC_VIDEO_CODEC_OK
                        THEN Append(accepted, pkt.timestamp)
                        ELSE accepted
         /\ aborted' = r.aborted
  /\ calls' = calls + 1
  /\ UNCHANGED alive

Decode ==
  /\ Running /\ calls < MaxCalls
  /\ \E pkt \in Packets(calls + 1), e \in DecodeEnv :
       /\ RelevantDecode(pkt, e)
       /\ DecodeWith(pkt, e)

Next ==
  \/ Configure
  \/ Decode
  \/ Release
  \/ Destructor
  \/ RegisterDecodeCompleteCallback

Spec == Init /\ [][Next]_vars

\* ------------------------------------------ several decoders in a process
\* H264DecoderImpl::H264DecoderImpl() once the previous decoder of the
\* process is destroyed: a new object, with a pool of its own, in a
\* process whose devices, engine handles and telemetry go on.
Construct ==
  /\ ~alive /\ ~aborted
  /\ dec' = Constructed
  /\ eng' = NoEngine
  /\ sw' = NoSw
  /\ alive' = TRUE
  /\ last' = [NoCall EXCEPT !.op = "Construct"]
  /\ UNCHANGED <<gpu, engs, tel, delivered, accepted, calls, aborted,
                 adapter, encoder>>

NextProcess ==
  \/ Configure
  \/ Decode
  \/ Release
  \/ Destructor
  \/ RegisterDecodeCompleteCallback
  \/ Construct

SpecProcess == Init /\ [][NextProcess]_vars

\* --------------------------------------------------- changing consumers
\* The public calls with two consumers that replace each other and one
\* stream of 2x2 pictures; the registration is recorded as a call.
Consumers == { Null, 1, 2 }

ConsumerSettings ==
  [codec_type : CodecTypes, resolution : {<<2, 2>>},
   buffer_pool_size : {Null}]

ConsumerConfigureEnv ==
  { e \in ConfigureEnv :
      e.codec_found /\ e.device_ok /\ e.texture_ok /\ e.resize_ok
      /\ e.open \in {"hw", "fail"} }

ConsumerDecodeEnv == { [NoEnv EXCEPT !.receive_ok = ok] : ok \in BOOLEAN }

RegisterConsumer ==
  /\ Running
  /\ \E callback \in Consumers :
       /\ Commit(RegisterDecodeCompleteCallbackOp(World, callback))
       /\ last' = [Call("RegisterDecodeCompleteCallback",
                        WEBRTC_VIDEO_CODEC_OK, World)
                     EXCEPT !.callback = callback]
  /\ UNCHANGED <<delivered, accepted, calls, alive, aborted>>

ConsumerConfigure ==
  /\ Running /\ calls < MaxCalls
  /\ \E settings \in ConsumerSettings, e \in ConsumerConfigureEnv :
       /\ (settings.codec_type # kVideoCodecH264) => e.open = "hw"
       /\ ConfigureWith(settings, e)

ConsumerDecode ==
  /\ Running /\ calls < MaxCalls
  /\ \E pkt \in Packets(calls + 1), e \in ConsumerDecodeEnv :
       /\ pkt.data /\ pkt.size = <<0, 1>> /\ ~pkt.color_space
       /\ DecodeWith(pkt, e)

NextConsumers ==
  \/ RegisterConsumer
  \/ ConsumerConfigure
  \/ ConsumerDecode
  \/ Release
  \/ Destructor

SpecConsumers == Init /\ [][NextConsumers]_vars

\* ------------------------------------------- decoding on a configured session
\* The states of a new object right after RegisterDecodeCompleteCallback and
\* a Configure that returned true, and the Decode calls that follow: the
\* runs in which picture sizes change three times within one engine.
Registered ==
  [dec |-> [Constructed EXCEPT !.decoded_image_callback_ = 1],
   eng |-> NoEngine, gpu |-> [table |-> <<>>, misuse |-> {}],
   engs |-> [next |-> 0, live |-> {}], tel |-> [init |-> 0, error |-> 0],
   sw |-> NoSw, ev |-> <<>>]

\* The session is in state s and no call has been observed yet.
StartAt(s) ==
  /\ dec = s.dec
  /\ eng = s.eng
  /\ gpu = s.gpu
  /\ engs = s.engs
  /\ tel = s.tel
  /\ sw = s.sw
  /\ delivered = <<>>
  /\ accepted = <<>>
  /\ last = NoCall
  /\ calls = 0
  /\ alive = TRUE
  /\ aborted = FALSE
  /\ adapter = AdapterConstructed
  /\ encoder = EncoderConstructed

InitConfigured ==
  \E settings \in SettingsSet, e \in ConfigureEnv :
    /\ settings.codec_type = kVideoCodecH264
    /\ ~Valid(settings.resolution) => e.texture_ok
    /\ (settings.buffer_pool_size = Null) => e.resize_ok
    /\ ConfigureOp(Registered, settings, e).ret
    /\ StartAt(ConfigureOp(Registered, settings, e).s)

NextDecoding == Decode

SpecDecoding == InitConfigured /\ [][NextDecoding]_vars

\* ------------------------------------------------------ the software branch
\* AVGetBuffer2, the software branch of Decode and AVFreeBuffer2 as
\* functions of the engine context's pixel format and of the pictures the
\* engine produces.  The engine context is the one Configure leaves after
\* the software fallback of line 553, with pix_fmt set to the format under
\* study; the geometry of the stream's pictures is fixed for a run and
\* kept in eng.stream.
SwFormats ==
  { AV_PIX_FMT_YUV420P, AV_PIX_FMT_YUV422P, AV_PIX_FMT_YUV444P,
    AV_PIX_FMT_YUV420P10LE, AV_PIX_FMT_NV12 }

\* Pointer moves of the stream's pictures, <<columns, rows>>: none, to the
\* right, down, and to the left of the allocation.
SwMoves == { <<0, 0>>, <<2, 0>>, <<0, 2>>, <<-2, 0>> }

SwStreams ==
  { [NoSwPicture EXCEPT !.pad = g.pad, !.shrink = g.shrink,
                        !.left = g.move[1], !.top = g.move[2]] :
      g \in [pad : {0, 2}, shrink : {0, 1}, move : SwMoves] }

InitSoftware ==
  \E fmt \in SwFormats, stream \in SwStreams :
    StartAt([ConfigureOp(Registered,
                         [codec_type |-> kVideoCodecH264,
                          resolution |-> <<2, 2>>,
                          buffer_pool_size |-> Null],
                         [codec_found |-> TRUE, device_ok |-> TRUE,
                          texture_ok |-> TRUE, open |-> "sw",
                          resize_ok |-> TRUE]).s
               EXCEPT !.eng.pix_fmt = fmt, !.eng.negotiated = TRUE,
                      !.eng.stream = stream])

\* The answers the engine gives while decoding one packet of the stream.
SoftwareEnv ==
  { [NoEnv EXCEPT !.receive_ok = x.receive_ok, !.dims = x.dims,
                  !.dcheck = x.dcheck,
                  !.sw = [eng.stream EXCEPT !.keeps = x.keeps,
                                            !.size_ok = x.size_ok]] :
      x \in { y \in [receive_ok : BOOLEAN, dims : PicDims, dcheck : BOOLEAN,
                     keeps : BOOLEAN, size_ok : BOOLEAN] :
                /\ ~y.receive_ok =>
                     /\ y.dims = <<2, 2>> /\ ~y.dcheck /\ ~y.keeps
                     /\ y.size_ok
                /\ ~y.size_ok => ~y.keeps } }

\* A Decode of an ordinary packet on the software engine.
SoftwareDecode ==
  /\ Running /\ calls < MaxPictures
  /\ \E pkt \in Packets(calls + 1), e \in SoftwareEnv :
       /\ pkt.data /\ pkt.size = <<0, 1>> /\ ~pkt.color_space
       /\ DecodeWith(pkt, e)

\* The consumer, on its own thread, drops a frame it holds.
ConsumerDrop ==
  /\ Running
  /\ \E f \in sw.held :
       sw' = [(IF f.keeps THEN ReleaseRef(World, f.buffer) ELSE World).sw
                EXCEPT !.held = @ \ {f}]
  /\ last' = [NoCall EXCEPT !.op = "ConsumerDrop"]
  /\ UNCHANGED <<dec, eng, gpu, engs, tel, delivered, accepted, calls,
                 alive, aborted, adapter, encoder>>

\* The engine drops its own reference to a picture it had kept.
EngineUnref ==
  /\ Running
  /\ \E a \in sw.avbufs :
       /\ a.engine
       /\ sw' = AvBufferUnref(World, a, "engine").sw
  /\ last' = [NoCall EXCEPT !.op = "EngineUnref"]
  /\ UNCHANGED <<dec, eng, gpu, engs, tel, delivered, accepted, calls,
                 alive, aborted, adapter, encoder>>

NextSoftware ==
  \/ SoftwareDecode
  \/ ConsumerDrop
  \/ EngineUnref

SpecSoftware == InitSoftware /\ [][NextSoftware]_vars

\* ------------------------------------- a software session that is reset
\* The software branch with Release and Configure between the Decode
\* calls: one 8-bit 4:2:0 stream whose pictures the engine leaves where
\* AVGetBuffer2 put them.
SoftwareEngine(s, fmt, stream) ==
  [s EXCEPT !.eng.pix_fmt = fmt, !.eng.negotiated = TRUE,
            !.eng.stream = stream]

SoftwareSettings ==
  [codec_type : {kVideoCodecH264}, resolution : {<<2, 2>>},
   buffer_pool_size : {Null, 1}]

\* avcodec_open2 succeeds on the second attempt (line 547).
SoftwareConfigureEnv ==
  { e \in ConfigureEnv :
      e.codec_found /\ e.device_ok /\ e.texture_ok /\ e.open = "sw" }

InitSoftwareSession ==
  \E settings \in SoftwareSettings, e \in SoftwareConfigureEnv :
    /\ e.resize_ok
    /\ StartAt(SoftwareEngine(ConfigureOp(Registered, settings, e).s,
                              AV_PIX_FMT_YUV420P, NoSwPicture))

\* Release() on a configured software session.
SessionRelease ==
  /\ Running /\ IsInitialized(World)
  /\ LET s == ReleaseOp(World)
     IN  /\ Commit(s)
         /\ last' = Call("Release", WEBRTC_VIDEO_CODEC_OK, s)
  /\ UNCHANGED <<delivered, accepted, calls, alive, aborted>>

\* Configure() of the software session, again or after a Release.
SessionConfigure ==
  /\ Running /\ engs.next < MaxSessions
  /\ \E settings \in SoftwareSettings, e \in SoftwareConfigureEnv :
       /\ (settings.buffer_pool_size = Null) => e.resize_ok
       /\ LET r == ConfigureOp(World, settings, e)
          IN  /\ Commit(SoftwareEngine(r.s, AV_PIX_FMT_YUV420P, NoSwPicture))
              /\ last' = [Call("Configure",
                               IF r.ret THEN "true" ELSE "false", r.s)
                            EXCEPT !.codec = settings.codec_type]
  /\ UNCHANGED <<delivered, accepted, calls, alive, aborted>>

NextSoftwareSession ==
  \/ SoftwareDecode
  \/ ConsumerDrop
  \/ EngineUnref
  \/ SessionRelease
  \/ SessionConfigure

SpecSoftwareSession == InitSoftwareSession /\ [][NextSoftwareSession]_vars

\* ------------------------------------------- color space of the frames
\* Decode calls of ordinary packets, with and without an explicit
\* ColorSpace, on a session configured on the hardware engine or on the
\* software engine.
InitColorSpace ==
  \/ \E e \in ConsumerConfigureEnv :
       /\ e.open = "hw"
       /\ StartAt(ConfigureOp(Registered,
                              [codec_type |-> kVideoCodecH264,
                               resolution |-> <<2, 2>>,
                               buffer_pool_size |-> Null], e).s)
  \/ \E fmt \in SwFormats, e \in SoftwareConfigureEnv :
       /\ e.resize_ok
       /\ StartAt(SoftwareEngine(
                    ConfigureOp(Registered,
                                [codec_type |-> kVideoCodecH264,
                                 resolution |-> <<2, 2>>,
                                 buffer_pool_size |-> Null], e).s,
                    fmt, NoSwPicture))

\* The answers of the engine: whether a picture comes out, its size on
\* the hardware engine and whether CreateTexture2D succeeds for a new
\* size, and whether the software engine keeps the picture as a reference.
ColorSpaceEnv ==
  IF eng.pix_fmt = AV_PIX_FMT_D3D11
  THEN { e \in { [NoEnv EXCEPT !.receive_ok = x.receive_ok, !.dims = x.dims,
                               !.texture_ok = x.texture_ok] :
                   x \in [receive_ok : BOOLEAN, dims : PicDims,
                          texture_ok : BOOLEAN] } :
           /\ ~e.receive_ok => (e.dims = <<2, 2>> /\ e.texture_ok)
           /\ (e.dims = <<dec.texture_width, dec.texture_height>>)
                => e.texture_ok }
  ELSE { [NoEnv EXCEPT !.receive_ok = x.receive_ok,
                       !.sw = [eng.stream EXCEPT !.keeps = x.keeps]] :
           x \in { y \in [receive_ok : BOOLEAN, keeps : BOOLEAN] :
                     ~y.receive_ok => ~y.keeps } }

ColorSpaceDecode ==
  /\ Running /\ calls < MaxCalls
  /\ \E pkt \in Packets(calls + 1), e \in ColorSpaceEnv :
       /\ pkt.data /\ pkt.size = <<0, 1>>
       /\ DecodeWith(pkt, e)

NextColorSpace == ColorSpaceDecode

SpecColorSpace == InitColorSpace /\ [][NextColorSpace]_vars

\* ------------------------------------------ surfaces of the engine's pool
\* Decode calls on one hardware session whose consumer keeps every frame
\* it was handed.  The engine puts each picture in a surface of its own
\* pool that no AVFrame references; av_frame_ is unreferenced before
\* Decode returns (line 778) and the frame's buffer is built from the bare
\* pointer (line 764), so every surface of the pool is free at each call.
EngineSurfaces == { EngineSurface, EngineSurface - 1 }

InitSurfaces ==
  \E e \in ConsumerConfigureEnv :
    /\ e.open = "hw"
    /\ StartAt(ConfigureOp(Registered,
                           [codec_type |-> kVideoCodecH264,
                            resolution |-> <<2, 2>>,
                            buffer_pool_size |-> Null], e).s)

SurfaceEnv ==
  { e \in { [NoEnv EXCEPT !.receive_ok = x.receive_ok, !.dims = x.dims,
                          !.texture_ok = x.texture_ok,
                          !.surface = x.surface] :
              x \in [receive_ok : BOOLEAN, dims : PicDims,
                     texture_ok : BOOLEAN, surface : EngineSurfaces] } :
      /\ ~e.receive_ok => (e.dims = <<2, 2>> /\ e.texture_ok
                           /\ e.surface = EngineSurface)
      /\ (e.dims = <<dec.texture_width, dec.texture_height>>)
           => e.texture_ok }

SurfaceDecode ==
  /\ Running /\ calls < MaxCalls
  /\ \E pkt \in Packets(calls + 1), e \in SurfaceEnv :
       /\ pkt.data /\ pkt.size = <<0, 1>> /\ ~pkt.color_space
       /\ DecodeWith(pkt, e)

NextSurfaces == SurfaceDecode

SpecSurfaces == InitSurfaces /\ [][NextSurfaces]_vars

\* ------------------------------------------------- the allocation callback
\* AVGetBuffer2 as a function of the engine's format and of the picture
\* size the engine asks storage for.
RequestDims == { <<2, 2>>, <<-2, 2>>, <<2, -2>> }

InitGetBuffer ==
  \E fmt \in kPixelFormatsSupported :
    StartAt(SoftwareEngine(
              ConfigureOp(Registered,
                          [codec_type |-> kVideoCodecH264,
                           resolution |-> <<2, 2>>,
                           buffer_pool_size |-> Null],
                          [codec_found |-> TRUE, device_ok |-> TRUE,
                           texture_ok |-> TRUE, open |-> "sw",
                           resize_ok |-> TRUE]).s,
              fmt, NoSwPicture))

\* The engine calls get_buffer2 for a picture of size dims; size_ok is the
\* answer of av_image_check_size.
GetBuffer ==
  /\ Running /\ calls < MaxPictures
  /\ \E dims \in RequestDims, size_ok \in BOOLEAN, dcheck \in BOOLEAN :
       /\ (dims[1] < 0 \/ dims[2] < 0) => size_ok
       /\ LET g == [NoSwPicture EXCEPT !.size_ok = size_ok]
              r == AVGetBuffer2(World, dims[1], dims[2], g, dcheck)
          IN  /\ Commit(r.s)
              /\ aborted' = r.aborted
              /\ last' = [NoCall EXCEPT
                            !.op = "AVGetBuffer2",
                            !.ret = IF r.ret < 0 THEN "negative" ELSE "zero",
                            !.e = [NoEnv EXCEPT !.dims = dims, !.sw = g,
                                                !.dcheck = dcheck],
                            !.picture = r.frame]
  /\ calls' = calls + 1
  /\ UNCHANGED <<delivered, accepted, alive>>

NextGetBuffer == GetBuffer

SpecGetBuffer == InitGetBuffer /\ [][NextGetBuffer]_vars

\* ------------------------------------------- initialising an adapter
\* One Initialize call on a DxgiAdapterDuplicator.
AdapterInitialize ==
  /\ adapter.ret = "none"
  /\ \E e \in AdapterEnv :
       adapter' = [Initialize(adapter, e).a
                     EXCEPT !.ret = IF Initialize(adapter, e).ret
                                    THEN "true" ELSE "false",
                            !.e = e]
  /\ UNCHANGED <<decoderVars, encoder>>

NextAdapter == AdapterInitialize

SpecAdapter == Init /\ [][NextAdapter]_vars

\* ------------------------------------------- initialising an encoder
\* init calls on one FFEncoder, the first on the object as constructed.
EncoderInitCall ==
  /\ encoder.ret # "aborted" /\ encoder.calls < MaxCalls
  /\ \E width \in EncoderWidths, e \in EncoderEnv :
       /\ ~encoder.av_context_.allocated => ~e.dcheck
       /\ encoder' = [EncoderInit(encoder, width, e)
                        EXCEPT !.calls = @ + 1, !.e = e]
  /\ UNCHANGED <<decoderVars, adapter>>

NextEncoder == EncoderInitCall

SpecEncoder == Init /\ [][NextEncoder]_vars

\* ------------------------------------------------------------------ claims
\* The error kinds named by the specification, by the code that returns
\* them: NotConfigured at line 648, InvalidArgument at line 659.
NotConfigured == WEBRTC_VIDEO_CODEC_UNINITIALIZED
InvalidArgument == WEBRTC_VIDEO_CODEC_ERR_PARAMETER

DecodeReturned == last.op = "Decode" /\ ~aborted

\* What a Decode entered in the current state would return, for every
\* packet and every answer of the engine.
NextDecodeReturns(ret) ==
  \A pkt \in Packets(calls + 1), e \in DecodeEnv :
    DecodeOp(World, pkt, e).ret = ret

C2_ReleaseAlwaysSucceeds ==
  (last.op = "Release") =>
    /\ last.ret = WEBRTC_VIDEO_CODEC_OK
    /\ dec.av_context_ = Null /\ engs.live = {}
    /\ NextDecodeReturns(NotConfigured)

\* C2 witness: a Release of a session that was already released, after a
\* Configure that had created GPU handles.
C2_Witness ==
  /\ last.op = "Release" /\ ~last.pre_init /\ last.ev # <<>>
  /\ last.ret = WEBRTC_VIDEO_CODEC_OK

\* C3: every GPU handle the session creates is released at most once while
\* the session lives and exactly once by the time it is destroyed.
C3_ReleasedExactlyOnce ==
  \A h \in 1..Len(gpu.table) :
    /\ gpu.table[h].releases <= 1
    /\ ~alive => gpu.table[h].releases = 1

\* C4: the Release that directly follows a successful Configure leaves the
\* session as the constructor does: no engine, device, device-context or
\* surface handle, and the initial tracked surface dimensions.
C4_ConfigureReleaseIsFresh ==
  [][(last.op = "Configure" /\ last.ret = "true" /\ last'.op = "Release") =>
       /\ dec'.av_context_ = Null
       /\ dec'.d3dDevice_ = HeaderDefaults.d3dDevice_
       /\ dec'.d3dDeviceContext_ = HeaderDefaults.d3dDeviceContext_
       /\ dec'.d3dTexture_ = HeaderDefaults.d3dTexture_
       /\ dec'.texture_width = HeaderDefaults.texture_width
       /\ dec'.texture_height = HeaderDefaults.texture_height]_vars

\* C5: a Configure with a codec that is not H.264 returns failure and the
\* session is Uninitialized afterwards, whatever it was before.
C5_UnsupportedCodecUninitialized ==
  (last.op = "Configure" /\ last.codec # kVideoCodecH264) =>
    (last.ret = "false" /\ dec.av_context_ = Null)

\* C6 as stated: a Decode on a Configured session without a consumer
\* fails with a result that differs from NotConfigured, submits nothing
\* and leaves the session Configured.
C6_DistinctFromNotConfigured ==
  (DecodeReturned /\ last.pre_init /\ last.pre_cb = Null) =>
    /\ last.ret # WEBRTC_VIDEO_CODEC_OK /\ last.ret # NotConfigured
    /\ last.submits = 0
    /\ dec.av_context_ = last.pre_ctx

\* C6 as amended: a Decode on a Configured session without a consumer
\* returns WEBRTC_VIDEO_CODEC_UNINITIALIZED, the very result of
\* NotConfigured, submits nothing, delivers nothing and leaves the session
\* Configured with the same engine handle.
C6_NoCallbackUninitialized ==
  (DecodeReturned /\ last.pre_init /\ last.pre_cb = Null) =>
    /\ last.ret = WEBRTC_VIDEO_CODEC_UNINITIALIZED
    /\ last.submits = 0 /\ last.delivers = 0
    /\ dec.av_context_ = last.pre_ctx /\ dec.av_context_ # Null

\* C6 witness: an ordinary packet was turned down on a Configured session
\* for want of a consumer.
C6_Witness ==
  /\ DecodeReturned /\ last.pre_init /\ last.pre_cb = Null
  /\ last.data /\ last.size = <<0, 1>>
  /\ last.ret = WEBRTC_VIDEO_CODEC_UNINITIALIZED

\* C7: a Decode on a Configured session with a consumer and an empty
\* packet (null data or size 0) returns InvalidArgument, submits nothing,
\* delivers nothing and leaves the session Configured.
C7_EmptyPacketInvalidArgument ==
  (DecodeReturned /\ last.pre_init /\ last.pre_cb # Null
     /\ (~last.data \/ last.size = <<0, 0>>)) =>
    /\ last.ret = InvalidArgument
    /\ last.submits = 0 /\ last.delivers = 0
    /\ dec.av_context_ = last.pre_ctx /\ dec.av_context_ # Null

\* C7 witness: a packet with data but size 0 was turned down.
C7_Witness ==
  /\ DecodeReturned /\ last.pre_init /\ last.pre_cb # Null
  /\ last.data /\ last.size = <<0, 0>>
  /\ last.ret = InvalidArgument

\* C8: a Decode of a packet larger than the largest int returns
\* InvalidArgument, as for an empty packet, and submits nothing.
C8_OversizedInvalidArgument ==
  (DecodeReturned /\ last.pre_init /\ last.pre_cb # Null /\ last.data
     /\ last.size = <<1, 0>>) =>
    (last.ret = InvalidArgument /\ last.submits = 0)

\* C9: a Decode that returns a per-frame error leaves the session
\* Configured with the engine handle it had, and a Decode that follows one
\* is not turned down as NotConfigured.
C9_PerFrameErrorKeepsSession ==
  /\ (DecodeReturned /\ last.ret \in PerFrameErrors) =>
       /\ dec.av_context_ = last.pre_ctx /\ dec.av_context_ # Null
       /\ dec.av_context_ \in engs.live
  /\ (DecodeReturned /\ last.pre_failed = 1 /\ last.pre_cb # Null) =>
       last.ret # NotConfigured

\* C9 witness: a Decode succeeded on an engine on which an earlier Decode
\* had failed, without a Configure in between.
C9_Witness ==
  /\ DecodeReturned /\ last.pre_failed = 1
  /\ last.ret = WEBRTC_VIDEO_CODEC_OK /\ last.delivers = 1

\* C10: the frames delivered so far carry, in order, the time stamps of
\* the packets whose Decode returned OK, and these increase with the
\* submission order.
C10_DeliveredInSubmissionOrder ==
  /\ Len(delivered) = Len(accepted)
  /\ \A i \in 1..Len(delivered) : delivered[i].timestamp = accepted[i]
  /\ \A i, j \in 1..Len(delivered) :
       i < j => delivered[i].timestamp < delivered[j].timestamp

\* C10 witness: two frames have been delivered.
C10_Witness ==
  /\ Len(delivered) = 2
  /\ delivered[1].timestamp < delivered[2].timestamp

\* C11: a Decode returns WEBRTC_VIDEO_CODEC_OK if and only if it delivered
\* exactly one frame, to the consumer registered when the call was entered,
\* before it returned; a Decode that returns an error delivers no frame.
C11_OkIffOneFrame ==
  DecodeReturned =>
    /\ (last.ret = WEBRTC_VIDEO_CODEC_OK) <=> (last.delivers = 1)
    /\ (last.ret # WEBRTC_VIDEO_CODEC_OK) => (last.delivers = 0)
    /\ (last.delivers = 1) =>
         /\ last.pre_cb # Null
         /\ delivered[Len(delivered)].callback = last.pre_cb

\* C11 witness: one Decode returned OK after delivering its frame and a
\* later one failed on its surface after the picture was retrieved.
C11_Witness ==
  /\ DecodeReturned /\ last.ret = WEBRTC_VIDEO_CODEC_ERROR
  /\ last.receives = 1 /\ last.e.receive_ok /\ last.delivers = 0
  /\ Len(delivered) = 1

\* A Decode that got past the checks of lines 646-674: configured, consumer
\* registered, packet not empty, packet allocated, size within INT_MAX.
Accepted ==
  /\ last.op = "Decode"
  /\ last.pre_init /\ last.pre_cb # Null
  /\ last.data /\ last.size # <<0, 0>>
  /\ last.e.packet_ok
  /\ last.size[1] = 0 /\ last.size[2] <= IntMax

\* The engine reported failure on the submission of that call.
SubmissionFailed ==
  \/ ~last.e.send_ok
  \/ /\ ~last.pre_negotiated
     /\ \A i \in DOMAIN last.e.pix_fmts : last.e.pix_fmts[i] # AV_PIX_FMT_D3D11

\* C12: an accepted Decode submits exactly one packet and retrieves at most
\* one picture; a failed submission is not followed by a retrieval, and a
\* failure of either step (a retrieval that yields no picture included)
\* makes Decode return WEBRTC_VIDEO_CODEC_ERROR without a delivery.
C12_OneSubmitAtMostOneReceive ==
  Accepted =>
    /\ last.submits = 1 /\ last.receives <= 1
    /\ SubmissionFailed =>
         /\ last.receives = 0
         /\ last.ret = WEBRTC_VIDEO_CODEC_ERROR /\ last.delivers = 0
    /\ ~SubmissionFailed => last.receives = 1
    /\ (~SubmissionFailed /\ ~last.e.receive_ok) =>
         /\ last.ret = WEBRTC_VIDEO_CODEC_ERROR /\ last.delivers = 0

\* C12 witness: the engine took the packet and had no picture to return.
C12_Witness ==
  /\ Accepted /\ ~SubmissionFailed /\ ~last.e.receive_ok
  /\ last.submits = 1 /\ last.receives = 1
  /\ last.ret = WEBRTC_VIDEO_CODEC_ERROR

\* The session's current surface: the live texture d3dTexture_ points to.
SurfaceExists ==
  /\ dec.d3dTexture_ # Null
  /\ gpu.table[dec.d3dTexture_].releases = 0

SurfaceDims ==
  <<gpu.table[dec.d3dTexture_].w, gpu.table[dec.d3dTexture_].h>>

HardwareOk ==
  /\ DecodeReturned /\ last.ret = WEBRTC_VIDEO_CODEC_OK
  /\ eng.pix_fmt = AV_PIX_FMT_D3D11

\* C13: on the hardware path, after every Decode that returns OK the
\* session's current surface exists and has the width and height of the
\* delivered picture, after any sequence of Configure, Decode and Release.
C13_SurfaceMatchesPicture ==
  HardwareOk => (SurfaceExists /\ SurfaceDims = last.e.dims)

\* The last Decode retrieved a picture on the hardware path and failed on
\* the surface for it (line 710).
SurfaceAllocationFailed ==
  /\ DecodeReturned /\ Accepted /\ ~SubmissionFailed /\ last.e.receive_ok
  /\ eng.pix_fmt = AV_PIX_FMT_D3D11
  /\ last.e.dims # last.pre_dims
  /\ dec.d3dTexture_ = Null

\* C15: a hardware-path Decode whose surface allocation fails returns
\* WEBRTC_VIDEO_CODEC_ERROR and delivers nothing, the session keeps its
\* engine, and a next picture of the same size is not delivered without a
\* surface: the Decode that receives it allocates one or fails again.
C15_FailedAllocationIsRetried ==
  SurfaceAllocationFailed =>
    /\ last.ret = WEBRTC_VIDEO_CODEC_ERROR /\ last.delivers = 0
    /\ dec.av_context_ = last.pre_ctx /\ dec.av_context_ # Null
    /\ \A pkt \in Packets(calls + 1), e \in DecodeEnv :
         LET r == DecodeOp(World, pkt, e)
         IN  (e.dims = last.e.dims /\ r.ret = WEBRTC_VIDEO_CODEC_OK) =>
               /\ r.s.dec.d3dTexture_ # Null
               /\ r.s.gpu.table[r.s.dec.d3dTexture_].releases = 0

\* The last Decode retrieved a picture on the hardware path.
HardwarePicture ==
  /\ DecodeReturned /\ Accepted /\ ~SubmissionFailed /\ last.e.receive_ok
  /\ eng.pix_fmt = AV_PIX_FMT_D3D11

\* Resource events of a surface replacement: the release of the previous
\* surface, when there is one, and then the creation of the new one, when
\* the driver grants it.
ReplacementEvents ==
  (IF last.pre_tex # Null THEN << <<"release", last.pre_tex>> >> ELSE <<>>)
  \o (IF dec.d3dTexture_ # Null THEN << <<"create", dec.d3dTexture_>> >>
      ELSE <<>>)

\* C14: over Decode calls with growing and shrinking pictures on one
\* configured session, a picture whose size differs from the recorded one
\* releases the previous surface once, before the replacement is created,
\* a picture of the recorded size releases nothing, every replaced surface
\* has been released exactly once, and no picture is delivered while the
\* session's surface is smaller than the picture.
C14_ReplaceReleasesOnceBeforeCreate ==
  /\ HardwarePicture =>
       /\ (last.e.dims # last.pre_dims) =>
            /\ last.ev = ReplacementEvents
            /\ dec.d3dTexture_ # last.pre_tex \/ dec.d3dTexture_ = Null
       /\ (last.e.dims = last.pre_dims) =>
            /\ last.ev = <<>> /\ dec.d3dTexture_ = last.pre_tex
  /\ \A h \in DOMAIN gpu.table :
       gpu.table[h].kind = "texture" =>
         gpu.table[h].releases = (IF h = dec.d3dTexture_ THEN 0 ELSE 1)
  /\ (HardwareOk /\ dec.d3dTexture_ # Null) =>
       /\ SurfaceDims[1] >= last.e.dims[1]
       /\ SurfaceDims[2] >= last.e.dims[2]

\* C14 witness: pictures of 2x2, 4x4 and 2x2 were delivered in this order
\* and the last one replaced the 4x4 surface.
C14_Witness ==
  /\ HardwareOk /\ Len(delivered) = 3
  /\ delivered[1].width = 2 /\ delivered[2].width = 4
  /\ delivered[3].width = 2
  /\ last.pre_tex # Null /\ gpu.table[last.pre_tex].w = 4
  /\ SurfaceExists /\ SurfaceDims = <<2, 2>>

\* The frame the last Decode handed to the consumer, and the pooled buffer
\* behind a software frame.
LastFrame == delivered[Len(delivered)]

SoftwareDelivered ==
  /\ DecodeReturned /\ last.ret = WEBRTC_VIDEO_CODEC_OK
  /\ last.delivers = 1 /\ LastFrame.pooled # Null

Backing(f) == sw.pool[f.pooled]

\* Rows a frame of the given height exposes in a plane.
ExposedRows(type, plane, height) ==
  IF plane = kYPlaneIndex THEN height ELSE ChromaHeight(type, height)

\* The bounds invariant of one plane, in bytes: a view that starts at
\* `origin' and spans `rows' lines of `linesize' bytes lies inside the
\* plane of the allocation b.
PlaneInside(b, plane, origin, linesize, rows) ==
  /\ origin >= Data(b, plane)
  /\ origin + linesize * rows
       <= Data(b, plane)
          + Stride(b, plane) * BytesPerPixel(b.type) * Rows(b, plane)

\* C16: every plane of every software frame handed to the consumer lies
\* inside the plane of its backing allocation, whatever the padded and the
\* reported sizes are.
C16_ViewInsideAllocation ==
  SoftwareDelivered =>
    \A p \in 1..3 :
      PlaneInside(Backing(LastFrame), p, LastFrame.planes[p].data,
                  LastFrame.planes[p].stride
                    * BytesPerPixel(Backing(LastFrame).type),
                  ExposedRows(Backing(LastFrame).type, p, LastFrame.height))

\* The last Decode retrieved a software picture one of whose planes breaks
\* the bounds invariant.
PictureOutOfBounds ==
  /\ last.op = "Decode" /\ last.picture.buf.buffer # Null
  /\ \E p \in 1..3 :
       ~PlaneInside(sw.pool[last.picture.buf.buffer], p,
                    last.picture.data[p], last.picture.linesize[p],
                    ExposedRows(sw.pool[last.picture.buf.buffer].type, p,
                                last.picture.height))

\* The code a Decode that refuses a picture returns (line 836).
CorruptPicture == WEBRTC_VIDEO_CODEC_ERROR

\* C17: a Decode whose picture breaks the bounds invariant of a plane
\* returns an error and delivers no frame.
C17_CorruptPictureRejected ==
  PictureOutOfBounds =>
    /\ ~aborted
    /\ last.ret = CorruptPicture
    /\ last.delivers = 0

\* C18: a delivered software frame has the picture's reported width and
\* height, the strides of the allocation and the picture's plane pointers,
\* and is a reference to the pooled buffer the engine decoded into: the
\* consumer's view keeps that buffer and nothing is copied.
C18_CropWrapsPooledBuffer ==
  SoftwareDelivered =>
    /\ LastFrame.width = last.picture.width
    /\ LastFrame.height = last.picture.height
    /\ LastFrame.width = last.e.dims[1] - last.e.sw.shrink
    /\ LastFrame.pooled = last.picture.buf.buffer
    /\ \A p \in 1..3 :
         /\ LastFrame.planes[p].stride = Stride(Backing(LastFrame), p)
         /\ LastFrame.planes[p].data = last.picture.data[p]
    /\ Backing(LastFrame).lease = LastFrame.lease
    /\ Backing(LastFrame).refs >= 1
    /\ \E f \in sw.held :
         f.buffer = LastFrame.pooled /\ f.lease = LastFrame.lease /\ f.keeps

\* C18 witness: a 16-bit frame narrower than its allocation was delivered.
C18_Witness ==
  /\ SoftwareDelivered
  /\ Backing(LastFrame).type = "kI010"
  /\ LastFrame.width < Backing(LastFrame).width
  /\ LastFrame.width = last.e.dims[1] - 1

\* C20: a pooled buffer that a frame held by the consumer or an AVBuffer of
\* the engine refers to has not been handed out again since, and the
\* reference count of every buffer is the number of those frames and
\* AVBuffers, under every interleaving of Decode calls, consumer drops and
\* engine releases.
C20_ReferencedBufferNotReused ==
  /\ \A f \in sw.held : sw.pool[f.buffer].lease = f.lease
  /\ \A a \in sw.avbufs : sw.pool[a.buffer].lease = a.lease
  /\ \A i \in DOMAIN sw.pool :
       sw.pool[i].refs =
         Cardinality({ f \in sw.held : f.buffer = i /\ f.keeps })
         + Cardinality({ a \in sw.avbufs : a.buffer = i })

\* C20 witness: the consumer still holds the first frame and has dropped
\* nothing when a second picture of the same shape is decoded into a second
\* buffer.
C20_Witness ==
  /\ Len(sw.pool) = 2
  /\ sw.pool[1].type = sw.pool[2].type
  /\ sw.pool[1].width = sw.pool[2].width
  /\ sw.pool[1].height = sw.pool[2].height
  /\ \E f \in sw.held : f.buffer = 1
  /\ \E f \in sw.held : f.buffer = 2

\* C19: every frame handed to the consumer carries exactly one backing
\* reference, a pooled buffer or a surface handle; a hardware frame never
\* carries a null handle, also when the session itself has no surface.
C19_ExactlyOneBacking ==
  \A i \in DOMAIN delivered :
    (delivered[i].native # Null) # (delivered[i].pooled # Null)

\* C19 witness: a hardware frame was delivered while d3dTexture_ was null.
C19_Witness ==
  /\ HardwareOk /\ dec.d3dTexture_ = Null
  /\ LastFrame.native = EngineSurface /\ LastFrame.pooled = Null

\* Pooled buffer i is referenced by no frame of the consumer and by no
\* AVBuffer.
Unreferenced(i) ==
  /\ \A f \in sw.held : f.buffer # i
  /\ \A a \in sw.avbufs : a.buffer # i

\* The shape AVGetBuffer2 asks the pool for when the engine is about to
\* decode a picture with the answers e.
RequestedShape(e) ==
  [type |-> BufferType(eng.pix_fmt), width |-> e.dims[1] + e.sw.pad,
   height |-> e.dims[2] + e.sw.pad]

SameShape(b, shape) ==
  /\ b.type = shape.type
  /\ b.width = shape.width
  /\ b.height = shape.height

\* C21: a Decode that starts while the pool has a buffer of the requested
\* shape that nobody references any more creates no buffer; with a stream
\* of one shape whose frames are dropped before the next Decode the pool
\* stops growing.
C21_DroppedBufferIsReused ==
  [][(/\ last'.op = "Decode"
      /\ \E i \in DOMAIN sw.pool :
           Unreferenced(i) /\ SameShape(sw.pool[i], RequestedShape(last'.e)))
     => Len(sw.pool') = Len(sw.pool)]_vars

\* C21 witness: the second picture of a stream was decoded into the buffer
\* of the first one, which the consumer had dropped.
C21_Witness ==
  /\ SoftwareDelivered /\ Len(delivered) = 2
  /\ Len(sw.pool) = 1 /\ sw.pool[1].lease = 2
  /\ LastFrame.pooled = 1 /\ LastFrame.lease = 2

\* C22: Release and Configure take no frame from the consumer, and as long
\* as the consumer holds a frame, across Release, Configure and the Decode
\* calls that follow, its pooled buffer stays allocated, stays referenced
\* and is not handed out again.
C22_HeldFrameSurvivesRelease ==
  [][/\ \A f \in sw.held \cap sw.held' :
          /\ f.buffer \in DOMAIN sw.pool'
          /\ sw.pool'[f.buffer].lease = f.lease
          /\ sw.pool'[f.buffer].refs >= 1
     /\ last'.op \in {"Release", "Configure"} =>
          /\ sw.held \subseteq sw.held'
          /\ Len(sw.pool') = Len(sw.pool)]_vars

\* C22 witness: the consumer holds a frame delivered by the first engine
\* context while the second context, configured after a Release, decodes a
\* picture of the same shape into another buffer.
C22_Witness ==
  /\ SoftwareDelivered /\ Len(delivered) = 2
  /\ engs.next = 2 /\ dec.av_context_ = 2
  /\ Len(sw.pool) = 2
  /\ SameShape(sw.pool[1], sw.pool[2])
  /\ \E f \in sw.held : f.buffer = 1 /\ f.lease = 1
  /\ LastFrame.pooled = 2

\* The software tags in the priority order of the specification, and the
\* tag a negotiation over the candidate list pix_fmts is to return.
SoftwarePriority ==
  << AV_PIX_FMT_YUV420P, AV_PIX_FMT_YUV422P, AV_PIX_FMT_YUV444P,
     AV_PIX_FMT_YUV420P10LE, AV_PIX_FMT_YUV422P10LE, AV_PIX_FMT_YUV444P10LE,
     AV_PIX_FMT_NV12 >>

Candidates(pix_fmts) == { pix_fmts[i] : i \in DOMAIN pix_fmts }

ExpectedFormat(pix_fmts) ==
  IF AV_PIX_FMT_D3D11 \in Candidates(pix_fmts) THEN AV_PIX_FMT_D3D11
  ELSE IF \E i \in DOMAIN SoftwarePriority :
            SoftwarePriority[i] \in Candidates(pix_fmts)
  THEN SoftwarePriority[
         CHOOSE i \in DOMAIN SoftwarePriority :
           /\ SoftwarePriority[i] \in Candidates(pix_fmts)
           /\ \A j \in 1..(i - 1) :
                SoftwarePriority[j] \notin Candidates(pix_fmts)]
  ELSE AV_PIX_FMT_NONE

\* The last call was a Decode whose packet made the engine negotiate its
\* output format.
Negotiated ==
  /\ DecodeReturned /\ last.submits = 1
  /\ ~last.pre_negotiated /\ last.e.send_ok

\* C23: a negotiation leaves the engine with the hardware tag when the
\* candidate list has it, with the first supported software tag of the
\* list otherwise, and makes the Decode fail only when the list has no
\* supported tag.
C23_NegotiationPicksSupported ==
  Negotiated =>
    IF ExpectedFormat(last.e.pix_fmts) = AV_PIX_FMT_NONE
    THEN last.ret = WEBRTC_VIDEO_CODEC_ERROR
    ELSE /\ eng.pix_fmt = ExpectedFormat(last.e.pix_fmts)
         /\ eng.negotiated
         /\ last.receives = 1

\* The last Decode retrieved a picture that AVGetBuffer2 had given a
\* pooled buffer.
PictureAllocated ==
  DecodeReturned /\ last.picture.buf.buffer # Null

\* C24: whenever AVGetBuffer2 handed out a pooled buffer for the engine's
\* format, the packed 4:2:0 format included, the Decode that retrieves the
\* picture builds a frame on that buffer and delivers it.
C24_AllocatedFormatIsDelivered ==
  PictureAllocated =>
    /\ last.ret = WEBRTC_VIDEO_CODEC_OK
    /\ last.delivers = 1
    /\ LastFrame.pooled = last.picture.buf.buffer

\* The last call asked AVGetBuffer2 for a picture whose padded size is
\* negative or is refused by av_image_check_size.
InvalidSizeRequested ==
  /\ last.op = "AVGetBuffer2"
  /\ \/ last.e.dims[1] + last.e.sw.pad < 0
     \/ last.e.dims[2] + last.e.sw.pad < 0
     \/ ~last.e.sw.size_ok

\* C25: AVGetBuffer2 answers a request of invalid size with a negative
\* value, without aborting and with the pool as it was.
C25_InvalidSizeFails ==
  [][InvalidSizeRequested' =>
       /\ ~aborted'
       /\ last'.ret = "negative"
       /\ sw' = sw]_vars

\* C26: the initialization event is emitted at most once in the process,
\* whatever the number of Configure calls and of decoders.
C26_InitEventOncePerProcess == tel.init <= 1

\* The last call was a Configure or a Decode that returned a failure.
CallFailed ==
  \/ last.op = "Configure" /\ last.ret = "false"
  \/ DecodeReturned /\ last.ret # WEBRTC_VIDEO_CODEC_OK

\* C27: when a Configure or a Decode has returned a failure, the decoder
\* has reported the error event.
C27_FailureIsReported == CallFailed => dec.has_reported_error_

\* C28: the error event is emitted at most once in the process, whatever
\* the number of failed calls and of decoders.
C28_ErrorEventOncePerProcess == tel.error <= 1

\* C29: a registration returns WEBRTC_VIDEO_CODEC_OK in every state,
\* makes the given consumer the current one and changes nothing else; no
\* other call changes the consumer, Release and Configure included; and
\* every frame a Decode delivers goes to the consumer that was registered
\* last.
C29_RegisterReplacesConsumer ==
  [][/\ last'.op = "RegisterDecodeCompleteCallback" =>
          /\ last'.ret = WEBRTC_VIDEO_CODEC_OK
          /\ dec' = [dec EXCEPT !.decoded_image_callback_ = last'.callback]
          /\ UNCHANGED <<eng, gpu, engs, tel, sw, delivered, accepted,
                         alive, aborted>>
     /\ last'.op \in {"Configure", "Release", "Decode", "Destructor"} =>
          dec'.decoded_image_callback_ = dec.decoded_image_callback_
     /\ \A i \in DOMAIN delivered' :
          i > Len(delivered) =>
            /\ delivered'[i].callback # Null
            /\ delivered'[i].callback = dec.decoded_image_callback_]_vars

\* C29 witness: a frame went to the first consumer and, after the second
\* consumer was registered in its place, the next frame went to the second.
C29_Witness ==
  /\ DecodeReturned /\ Len(delivered) = 2
  /\ delivered[1].callback = 1 /\ delivered[2].callback = 2
  /\ dec.decoded_image_callback_ = 2

\* C30: on the hardware and on the software path, the frame a Decode
\* delivers carries the packet's own color space when the packet has one,
\* and the color space extracted from the stream only when it has none.
C30_PacketColorSpaceFirst ==
  (DecodeReturned /\ last.delivers = 1) =>
    LastFrame.color_space = IF last.explicit THEN "packet" ELSE "stream"

\* C30 witness: a software session delivered a frame for a packet that
\* carried a color space and then one for a packet that carried none.
C30_Witness ==
  /\ DecodeReturned /\ last.delivers = 1 /\ ~last.explicit
  /\ Len(delivered) = 2
  /\ delivered[1].pooled # Null /\ delivered[1].color_space = "packet"
  /\ delivered[2].pooled # Null /\ delivered[2].color_space = "stream"

\* C31: on one hardware session whose consumer keeps its frames, a Decode
\* of a picture of the recorded size, which reallocates no surface, does
\* not put its picture in a surface whose handle a kept frame carries.
C31_HeldSurfaceNotRecycled ==
  [][(/\ last'.op = "Decode" /\ last'.delivers = 1
      /\ last'.e.dims = last'.pre_dims
      /\ dec'.d3dTexture_ = dec.d3dTexture_)
     => \A i \in DOMAIN delivered :
          delivered[i].native # delivered'[Len(delivered')].native]_vars

\* C32: when a Decode directly follows a successful Configure on the
\* hardware path and retrieves a picture of the size of the surface that
\* Configure created, it releases no handle, creates none, and leaves
\* that surface as the session's surface.
C32_FirstPictureUsesEagerSurface ==
  [][(/\ last.op = "Configure" /\ last.ret = "true"
      /\ dec.d3dTexture_ # Null
      /\ last'.op = "Decode" /\ ~aborted'
      /\ last'.receives = 1 /\ last'.e.receive_ok
      /\ eng'.pix_fmt = AV_PIX_FMT_D3D11
      /\ last'.e.dims = SurfaceDims)
     => /\ last'.ev = <<>>
        /\ dec'.d3dTexture_ = dec.d3dTexture_]_vars

\* C33: a Configure for H.264 returns success exactly when the session is
\* Configured when it returns; after a failure the session holds no engine
\* handle and every Decode that follows returns
\* WEBRTC_VIDEO_CODEC_UNINITIALIZED.
C33_SuccessIffConfigured ==
  (last.op = "Configure" /\ last.codec = kVideoCodecH264) =>
    /\ (last.ret = "true") <=> IsInitialized(World)
    /\ (last.ret = "false") =>
         /\ dec.av_context_ = Null /\ engs.live = {}
         /\ \A pkt \in Packets(calls + 1), e \in DecodeEnv :
              DecodeOp(World, pkt, e).ret = WEBRTC_VIDEO_CODEC_UNINITIALIZED

\* C34: after every call the live engine handles are exactly the one the
\* session holds, if any, and a Configure entered in the current state
\* reaches the allocation of its engine handle, after its implicit
\* Release, with no live handle left.
C34_AtMostOneEngine ==
  /\ Cardinality(engs.live) <= 1
  /\ engs.live = IF dec.av_context_ = Null THEN {} ELSE {dec.av_context_}
  /\ ReleaseOp(ReportInit(World)).engs.live = {}

\* C34 witness: a Configure on a Configured session succeeded and the
\* session holds the second engine handle only.
C34_Witness ==
  /\ last.op = "Configure" /\ last.pre_init /\ last.ret = "true"
  /\ last.pre_ctx = 1 /\ dec.av_context_ = 2 /\ engs.live = {2}

\* C35: no surface has been created through, and no engine has been
\* handed, a device pointer that is null or whose device was released.
C35_DeviceIsLive ==
  gpu.misuse \cap {"texture_on_null_device", "texture_on_released_device",
                   "engine_given_null_device",
                   "engine_given_released_device"} = {}

\* C36: when AVGetBuffer2 is asked for a picture of valid size in a format
\* it has a buffer for, it does not abort on its contiguity assertions and
\* returns a frame whose second plane starts where the first ends and
\* whose third plane, for the three-plane formats, starts where the second
\* ends.
C36_PlanesContiguous ==
  (/\ last.op = "AVGetBuffer2" /\ ~InvalidSizeRequested
   /\ eng.pix_fmt # AV_PIX_FMT_D3D11)
  => LET type == BufferType(eng.pix_fmt)
         width == last.e.dims[1] + last.e.sw.pad
         height == last.e.dims[2] + last.e.sw.pad
         y_size == width * height * BytesPerPixel(type)
         uv_size == ChromaWidth(type, width) * ChromaHeight(type, height)
                    * BytesPerPixel(type)
         data == last.picture.data
     IN  /\ ~aborted /\ last.ret = "zero"
         /\ data[kUPlaneIndex] = data[kYPlaneIndex] + y_size
         /\ type # "kNV12" => data[kVPlaneIndex] = data[kUPlaneIndex] + uv_size

\* C37: an Initialize that returned true stored at least one output
\* duplicator, and after an Initialize that returned false the list of
\* duplicators is empty, whatever DoInitialize met.
C37_TrueOnlyWithDuplicator ==
  /\ adapter.ret = "true" => Len(adapter.duplicators_) >= 1
  /\ adapter.ret = "false" => adapter.duplicators_ = <<>>

\* A step of the last init failed: no encoder was found, or the device
\* context, the frames context or the codec could not be initialised.
InitStepFailed ==
  \/ ~encoder.e.found /\ ~encoder.e.fallback_found
  \/ encoder.e.device_init # 0
  \/ encoder.e.frames_init # 0
  \/ encoder.e.open # 0

\* C38: an init during which a step failed returns false.
C38_FailedStepReturnsFalse ==
  (encoder.ret \in {"true", "false"} /\ InitStepFailed) =>
    encoder.ret = "false"

====
